---- MODULE Spec2Model ----
(***************************************************************************)
(* A model of the chatter-client chat turn.                                *)
(*                                                                         *)
(*   Spec     the chat turn: handleSubmit (browser), handleSendMessage     *)
(*            (server action) and moderateChatContentFlow (retry loop).    *)
(*   SpecGen  generateResponseFromDrive: the image-tag scan of a model     *)
(*            answer against a pool of candidate images.                   *)
(*                                                                         *)
(* Text that the code scans character by character (answers, image names)  *)
(* is a sequence of one-character strings; text the code only passes       *)
(* along (chat input, feedback) is an atomic string.                       *)
(***************************************************************************)
EXTENDS Integers, Sequences, FiniteSets, TLC

VARIABLES
    \* ---- browser: ChatLayout state
    variant,        \* which revision of handleSubmit runs: "layout" | "part006"
    messages,       \* useState<Message[]>
    input,          \* useState("")
    isLoading,      \* useState(false)
    toasts,         \* toast() calls, in order
    nextId,         \* crypto.randomUUID(): the next fresh id
    \* ---- the turn in flight
    pc,             \* where the turn is: idle | mod_call | mod_wait | kb | gen | client
    userMessageId,  \* handleSubmit's userMessageId
    currentInput,   \* handleSubmit's currentInput
    result,         \* what handleSendMessage resolved (or rejected) with
    knowledgeBase,  \* <<>> or <<what getKnowledgeBase resolved to>>
    \* ---- moderateChatContentFlow locals
    retries,
    lastError,      \* <<>> or <<the error last caught>>
    \* ---- history of the turn (reset by each submit)
    turns,          \* turns submitted so far
    msgsBefore,     \* the transcript when the turn was submitted
    modResult,      \* <<>> or <<the moderation prompt's output>>
    errors,         \* the errors the moderation prompt threw, in order
    promptCalls,    \* invocations of moderateChatContentPrompt
    waits,          \* backoff delays waited, in ms, in order
    trace,          \* prompt invocations and waits of the turn, in order
    kbCalls,        \* invocations of getKnowledgeBase
    genCalls,       \* invocations of generateResponseFromDrive
    \* ---- generateResponseFromDrive (SpecGen)
    genPc,          \* idle | start | flow | process | done | thrown
    knowledgeImages,\* what getImagesFromKnowledgeSites resolved to
    answer,         \* the pieces of the model's answer (what the model meant)
    flowFailed,     \* the prompt threw and the flow answered with the apology
    flowResponse,   \* result.response of generateResponseFromDriveFlow
    output,         \* what generateResponseFromDrive returns
    \* ---- one <img> of a rendered message (SpecImg)
    imgHandler,     \* whose onError it has: "chain" (ChatMessage) | "proxied" (ImageComponent)
    imageUrl,       \* image.url, the prop the handler closes over
    element,        \* what stands in the slot: "img" | "iframe"
    src,            \* the element's current src
    imgPc,          \* unmounted | loading | loaded | frame
    attempts,       \* the fallbacks the handler applied, in order (the first MaxAttempts)
    now,            \* Date.now() at the last load request, reduced modulo MaxNow
    \* ---- POST /api/create-ticket (SpecTicket)
    ticketPc,       \* idle | creating | answered
    ticketBody,     \* <<>> or <<the body of the request being handled>>
    ticketReply,    \* the response of POST
    ticketReplies,  \* the status codes the caller received, in order
    \* ---- the processImages effect of ChatLayout (SpecResolve)
    passes,         \* the runs of processImages that wait for a direct url, oldest first
    \* ---- the ticket modal and useTicketCreation (SpecModal)
    ticketModalOpen,   \* useState(false) of ChatLayout
    ticketQuestion,    \* useState("") of ChatLayout
    ticketMessageId,   \* useState("") of ChatLayout; 0 for ""
    email,             \* useState("") of TicketFormModal
    additionalDetails, \* useState("") of TicketFormModal
    isCreating,        \* useState(false) of the hook
    ticket,            \* the hook's ticket: <<>> (null) or <<the record>>
    error,             \* the hook's error: <<>> (null) or <<its message>>
    creating,          \* <<>> or <<the createTicket call that has not settled>>
    ticketCalls,       \* createTicket calls made so far
    \* ---- POST /api/image-url (SpecRoute)
    routePc,        \* idle | launching | scraping | closing | answered
    routeBody,      \* <<>> or <<the body of the request being handled>>
    browser,        \* getActualImageUrl's browser: "null" | "open" | "closed"
    scraped,        \* what the try or catch block returns: <<>> (null) or <<the url>>
    closeCalls,     \* calls of browser.close() in the request
    routeReply,     \* the response of POST
    routeReplies,   \* the status codes the caller received, in order
    \* ---- StepImageRenderer (SpecRender)
    renderer,       \* which revision renders: "injected" | "sections"
    renderContent,  \* the prop content
    renderImages,   \* the prop images
    renderPc,       \* props | rendered
    rendered        \* what is shown: texts and images, top to bottom

chatVars == <<variant, messages, input, isLoading, toasts, nextId, pc,
              userMessageId, currentInput, result, knowledgeBase, retries,
              lastError, turns, msgsBefore, modResult, errors, promptCalls, waits,
              trace, kbCalls, genCalls>>

genVars == <<genPc, knowledgeImages, answer, flowFailed, flowResponse, output>>

imgVars == <<imgHandler, imageUrl, element, src, imgPc, attempts, now>>

ticketVars == <<ticketPc, ticketBody, ticketReply, ticketReplies>>

resolveVars == <<passes>>

modalVars == <<ticketModalOpen, ticketQuestion, ticketMessageId, email,
               additionalDetails, isCreating, ticket, error, creating, ticketCalls>>

routeVars == <<routePc, routeBody, browser, scraped, closeCalls, routeReply,
               routeReplies>>

renderVars == <<renderer, renderContent, renderImages, renderPc, rendered>>

sideVars == <<routeVars, renderVars>>

vars == <<chatVars, genVars, imgVars, ticketVars, resolveVars, modalVars, sideVars>>

NoValue == "none"

\* ------------------------------------------------------------------ bounds

MaxTurns == 2
MaxPieces == 2
MaxFiles == 1
MaxAttempts == 5
MaxNow == 3
MaxRequests == 2
MaxPasses == 2
MaxLines == 3

\* ------------------------------------------------------------ text helpers
\* A text is a sequence of one-character strings.

UpperCase == <<"A", "B", "C", "D", "E", "F", "G", "H", "I", "J", "K", "L", "M", "N", "O", "P", "Q", "R", "S", "T", "U", "V", "W", "X", "Y", "Z">>
LowerCase == <<"a", "b", "c", "d", "e", "f", "g", "h", "i", "j", "k", "l", "m", "n", "o", "p", "q", "r", "s", "t", "u", "v", "w", "x", "y", "z">>
Digits == {"0", "1", "2", "3", "4", "5", "6", "7", "8", "9"}
UpperSet == {UpperCase[i] : i \in DOMAIN UpperCase}
LowerSet == {LowerCase[i] : i \in DOMAIN LowerCase}
\* \s
WhiteSpace == {" ", "\t", "\n", "\r"}
\* \w
WordChars == UpperSet \cup LowerSet \cup Digits \cup {"_"}

LowerChar(c) ==
    IF c \in UpperSet
    THEN LowerCase[CHOOSE i \in DOMAIN UpperCase : UpperCase[i] = c]
    ELSE c

Min(S) == CHOOSE x \in S : \A y \in S : x <= y

\* String.prototype.toLowerCase
ToLowerCase(s) == [i \in 1..Len(s) |-> LowerChar(s[i])]

\* s.startsWith(t, i - 1)
StartsWithAt(s, i, t) ==
    /\ i >= 1
    /\ i + Len(t) - 1 <= Len(s)
    /\ \A j \in 1..Len(t) : s[i + j - 1] = t[j]

\* String.prototype.includes
Includes(s, t) == \E i \in 1..(Len(s) - Len(t) + 1) : StartsWithAt(s, i, t)

\* The first index k >= from with s[k] = c, or 0.
IndexOfFrom(s, c, from) ==
    IF \E k \in from..Len(s) : s[k] = c
    THEN CHOOSE k \in from..Len(s) :
            s[k] = c /\ \A m \in from..(k - 1) : s[m] # c
    ELSE 0

\* String.prototype.trim
Trim(s) ==
    LET keep == {i \in 1..Len(s) : s[i] \notin WhiteSpace}
    IN  IF keep = {} THEN <<>>
        ELSE LET lo == Min(keep)
                 hi == CHOOSE i \in keep : \A j \in keep : i >= j
             IN  SubSeq(s, lo, hi)

\* String.prototype.split on a set of separator characters: the pieces
\* between separators, empty pieces included.
RECURSIVE SplitFrom(_, _, _)
SplitFrom(s, seps, from) ==
    LET cut == {k \in from..Len(s) : s[k] \in seps}
    IN  IF cut = {} THEN <<SubSeq(s, from, Len(s))>>
        ELSE LET k == Min(cut)
             IN  <<SubSeq(s, from, k - 1)>> \o SplitFrom(s, seps, k + 1)

Split(s, seps) == SplitFrom(s, seps, 1)

\* arr.pop() of a split: the last piece
LastPiece(s, seps) == LET p == Split(s, seps) IN p[Len(p)]

\* text with the spans [m.start, m.end] of `ms` (in order, disjoint) cut out
RECURSIVE CutSpans(_, _, _)
CutSpans(s, ms, from) ==
    IF ms = <<>> THEN SubSeq(s, from, Len(s))
    ELSE SubSeq(s, from, ms[1].start - 1) \o CutSpans(s, Tail(ms), ms[1].end + 1)

\* ------------------------------------------- the tag regular expressions

GeneralOpen == <<"[", "i", "m", "a", "g", "e", ":">>
StepOpen == <<"[", "i", "m", "a", "g", "e", "-", "s", "t", "e", "p">>

\* the literal `open` at position i, letter case ignored (flag i)
OpensAt(s, i, open) ==
    /\ i + Len(open) - 1 <= Len(s)
    /\ s[i] = "["
    /\ ToLowerCase(SubSeq(s, i, i + Len(open) - 1)) = open

\* \s*([^\]]+)\] from position j: the index of the closing bracket, which
\* must leave at least one character for the group; 0 when there is none.
TagBodyEnd(s, j) ==
    LET k == IndexOfFrom(s, "]", j)
    IN  IF k > j THEN k ELSE 0

\* /\[image:\s*([^\]]+)\]/gi at position i: the match, or <<>>.
\* name is match[1].trim().
GeneralMatchAt(s, i) ==
    IF OpensAt(s, i, GeneralOpen)
    THEN LET j == i + Len(GeneralOpen)
             k == TagBodyEnd(s, j)
         IN  IF k = 0 THEN <<>>
             ELSE <<[start |-> i, end |-> k, stepNum |-> <<>>,
                     name |-> Trim(SubSeq(s, j, k - 1))]>>
    ELSE <<>>

\* the run of digits starting at position j
RECURSIVE DigitRun(_, _)
DigitRun(s, j) ==
    IF j <= Len(s) /\ s[j] \in Digits THEN 1 + DigitRun(s, j + 1) ELSE 0

\* /\[image-step(\d+):\s*([^\]]+)\]/gi at position i: the match, or <<>>.
StepMatchAt(s, i) ==
    IF OpensAt(s, i, StepOpen)
    THEN LET d == i + Len(StepOpen)
             n == DigitRun(s, d)
         IN  IF n = 0 \/ d + n > Len(s) \/ s[d + n] # ":" THEN <<>>
             ELSE LET j == d + n + 1
                      k == TagBodyEnd(s, j)
                  IN  IF k = 0 THEN <<>>
                      ELSE <<[start |-> i, end |-> k,
                              stepNum |-> Trim(SubSeq(s, d, d + n - 1)),
                              name |-> Trim(SubSeq(s, j, k - 1))]>>
    ELSE <<>>

\* regex.exec in a loop (flag g): the leftmost match at or after `from`,
\* then on from the end of that match.
RECURSIVE ScanGeneral(_, _)
ScanGeneral(s, from) ==
    LET hits == {i \in from..Len(s) : s[i] = "[" /\ GeneralMatchAt(s, i) # <<>>}
    IN  IF hits = {} THEN <<>>
        ELSE LET m == GeneralMatchAt(s, Min(hits))
             IN  m \o ScanGeneral(s, m[1].end + 1)

RECURSIVE ScanStep(_, _)
ScanStep(s, from) ==
    LET hits == {i \in from..Len(s) : s[i] = "[" /\ StepMatchAt(s, i) # <<>>}
    IN  IF hits = {} THEN <<>>
        ELSE LET m == StepMatchAt(s, Min(hits))
             IN  m \o ScanStep(s, m[1].end + 1)

GeneralMatches(s) == ScanGeneral(s, 1)
StepMatches(s) == ScanStep(s, 1)

\* .replace(generalImageRegex, "").replace(stepImageRegex, "").trim()
RemoveImageTags(s) ==
    LET g == CutSpans(s, GeneralMatches(s), 1)
    IN  Trim(CutSpans(g, StepMatches(g), 1))

\* ------------------------------------ generateResponseFromDrive: scanning

\* requestedStepImages: { stepNum, imageName } of every step tag whose
\* trimmed name is not empty
RequestedStepImages(response) ==
    SelectSeq(StepMatches(response), LAMBDA m : m.name # <<>>)

Names(ms) == [i \in 1..Len(ms) |-> ms[i].name]

\* requestedImageNames after the two exec loops: the general tags' names,
\* then the step tags' names
TagNames(response) ==
    Names(SelectSeq(GeneralMatches(response), LAMBDA m : m.name # <<>>))
        \o Names(RequestedStepImages(response))

ImageExtensions == <<<<"j", "p", "g">>, <<"j", "p", "e", "g">>, <<"p", "n", "g">>, <<"g", "i", "f">>, <<"s", "v", "g">>, <<"w", "e", "b", "p">>>>

IsWordAt(s, i) == i >= 1 /\ i <= Len(s) /\ s[i] \in WordChars

RECURSIVE WordRun(_, _)
WordRun(s, j) == IF IsWordAt(s, j) THEN 1 + WordRun(s, j + 1) ELSE 0

\* /\b\w+\.(jpg|jpeg|png|gif|svg|webp)\b/gi at position i: the index of the
\* match's last character, or 0
ExtensionMatchEnd(s, i) ==
    IF ~IsWordAt(s, i) \/ IsWordAt(s, i - 1) THEN 0
    ELSE LET dot == i + WordRun(s, i)
             ok == {x \in DOMAIN ImageExtensions :
                      /\ dot <= Len(s) /\ s[dot] = "."
                      /\ dot + Len(ImageExtensions[x]) <= Len(s)
                      /\ ToLowerCase(SubSeq(s, dot + 1, dot + Len(ImageExtensions[x])))
                            = ImageExtensions[x]
                      /\ ~IsWordAt(s, dot + Len(ImageExtensions[x]) + 1)}
         IN  IF ok = {} THEN 0
             ELSE dot + Len(ImageExtensions[Min(ok)])

RECURSIVE ScanExtensions(_, _)
ScanExtensions(s, from) ==
    LET hits == {i \in from..Len(s) : ExtensionMatchEnd(s, i) # 0}
    IN  IF hits = {} THEN <<>>
        ELSE LET i == Min(hits)
                 e == ExtensionMatchEnd(s, i)
             IN  <<SubSeq(s, i, e)>> \o ScanExtensions(s, e + 1)

\* image.name.split("/").pop() || ""
FileNameOnly(name) == LastPiece(name, {"/"})

\* the forEach over knowledgeImages: is the image's name mentioned in the
\* response (full name, file name without extension, or file name)?
IsMentioned(response, image) ==
    LET lower == ToLowerCase(response)
        fullNameLower == ToLowerCase(image.name)
        fileNameOnly == FileNameOnly(image.name)
        nameWithoutExtension == ToLowerCase(Split(fileNameOnly, {"."})[1])
    IN  \/ Includes(lower, fullNameLower) /\ Len(fullNameLower) > 3
        \/ Includes(lower, nameWithoutExtension) /\ Len(nameWithoutExtension) > 3
        \/ Includes(lower, fileNameOnly) /\ Len(fileNameOnly) > 3

\* if (requestedImageNames.length === 0): file names found in the text, then
\* the names of the images the text mentions
MentionedNames(response, images) ==
    ScanExtensions(response, 1)
        \o Names(SelectSeq(images, LAMBDA img : IsMentioned(response, img)))

RequestedImageNames(response, images) ==
    IF TagNames(response) # <<>> THEN TagNames(response)
    ELSE MentionedNames(response, images)

\* ----------------------------------- generateResponseFromDrive: selection

NameSeparators == {"_", "-", "."} \cup WhiteSpace

\* split("/").pop() || s
FileNameOr(s) == IF LastPiece(s, {"/"}) # <<>> THEN LastPiece(s, {"/"}) ELSE s

\* imageWords.some(imgWord => nameWords.some(nameWord => ...))
WordMatch(imageFilename, nameFilename) ==
    LET imageWords == Split(imageFilename, NameSeparators)
        nameWords == Split(nameFilename, NameSeparators)
    IN  \E a \in DOMAIN imageWords : \E b \in DOMAIN nameWords :
            /\ Len(imageWords[a]) > 3
            /\ Len(nameWords[b]) > 3
            /\ \/ Includes(imageWords[a], nameWords[b])
               \/ Includes(nameWords[b], imageWords[a])

\* the fuzzy test of one image name against one requested name
NameMatches(imageName, name) ==
    LET imageLower == ToLowerCase(imageName)
        nameLower == ToLowerCase(name)
        imageFilename == FileNameOr(imageLower)
        nameFilename == FileNameOr(nameLower)
    IN  \/ imageLower = nameLower
        \/ imageFilename = nameFilename
        \/ Includes(imageLower, nameLower)
        \/ Includes(nameLower, imageLower)
        \/ Includes(imageFilename, nameFilename)
        \/ Includes(nameFilename, imageFilename)
        \/ WordMatch(imageFilename, nameFilename)

\* Variant: an image is taken once for each requested name it matches
MatchingImagesPerRequest(images, names) ==
    SelectSeq(images, LAMBDA img :
        \E n \in DOMAIN names : NameMatches(img.name, names[n]))
    \o SelectSeq(images, LAMBDA img :
        Cardinality({n \in DOMAIN names : NameMatches(img.name, names[n])}) > 1)

\* knowledgeImages.filter(image => requestedImageNames.some(name => ...))
MatchingImages(images, names) ==
    SelectSeq(images, LAMBDA img :
        \E n \in DOMAIN names : NameMatches(img.name, names[n]))

imageRelevanceTerms ==
    <<<<"s", "h", "o", "w">>, <<"v", "i", "s", "u", "a", "l">>, <<"i", "l", "l", "u", "s", "t", "r", "a", "t">>, <<"d", "i", "a", "g", "r", "a", "m">>, <<"c", "h", "a", "r", "t">>, <<"g", "r", "a", "p", "h">>,
      <<"s", "e", "e">>, <<"l", "o", "o", "k">>, <<"p", "i", "c", "t", "u", "r", "e">>, <<"i", "m", "a", "g", "e">>, <<"p", "h", "o", "t", "o">>, <<"d", "i", "s", "p", "l", "a", "y">>,
      <<"s", "t", "e", "p">>, <<"p", "r", "o", "c", "e", "s", "s">>, <<"l", "o", "g", "i", "n">>, <<"s", "c", "r", "e", "e", "n", "s", "h", "o", "t">>, <<"i", "n", "t", "e", "r", "f", "a", "c", "e">>, <<"u", "i">>,
      <<"s", "c", "r", "e", "e", "n">>>>

MightBenefitFromImages(cleaned) ==
    \E t \in DOMAIN imageRelevanceTerms :
        Includes(ToLowerCase(cleaned), imageRelevanceTerms[t])

\* arr.slice(0, n)
Take(q, n) == SubSeq(q, 1, IF Len(q) < n THEN Len(q) ELSE n)

\* the images taken when no requested name matched any image
FallbackImages(cleaned, images) ==
    IF ~MightBenefitFromImages(cleaned) THEN <<>>
    ELSE LET loginImages ==
                 SelectSeq(images, LAMBDA img :
                     \/ Includes(ToLowerCase(img.name), <<"l", "o", "g", "i", "n">>)
                     \/ Includes(ToLowerCase(img.name), <<"s", "i", "g", "n", " ", "i", "n">>))
         IN  IF Includes(ToLowerCase(cleaned), <<"l", "o", "g", "i", "n">>) /\ loginImages # <<>>
             THEN Take(loginImages, 2)
             ELSE Take(images, 2)

SelectedImages(response, images) ==
    LET names == RequestedImageNames(response, images)
        found == IF names # <<>> THEN MatchingImages(images, names) ELSE <<>>
    IN  IF found = <<>> /\ images # <<>>
        THEN FallbackImages(RemoveImageTags(response), images)
        ELSE found

ImageLimit == 3

\* mutant: the selection is not cut
LimitedImagesUncapped(response, images) == SelectedImages(response, images)

\* selectedImages.slice(0, 3)
LimitedImages(response, images) == Take(SelectedImages(response, images), ImageLimit)

\* ------------------------------------- generateResponseFromDrive: output

NoStep == <<>>

\* requestedStepImages.find(stepImg => ...): the first step tag whose name
\* contains the image's name or is contained in it; <<>> when none
StepAssociation(image, stepImages) ==
    LET imageName == ToLowerCase(image.name)
        hits == {i \in DOMAIN stepImages :
                    \/ Includes(imageName, ToLowerCase(stepImages[i].name))
                    \/ Includes(ToLowerCase(stepImages[i].name), imageName)}
    IN  IF hits = {} THEN <<>>
        ELSE <<stepImages[Min(hits)]>>

\* `step-${stepAssociation.stepNum}`, or no stepId
StepIdOf(image, stepImages) ==
    LET a == StepAssociation(image, stepImages)
    IN  IF a = <<>> THEN NoStep ELSE <<"s", "t", "e", "p", "-">> \o a[1].stepNum

ImageUrls(limited, stepImages) ==
    [i \in 1..Len(limited) |->
        [id |-> limited[i].id, url |-> limited[i].contentLink,
         stepId |-> StepIdOf(limited[i], stepImages)]]

\* what generateResponseFromDrive returns for the flow's response
ProcessResponse(response, images) ==
    LET limited == IF images # <<>> THEN LimitedImages(response, images) ELSE <<>>
    IN  IF limited # <<>>
        THEN [response |-> RemoveImageTags(response),
              imageUrls |-> ImageUrls(limited, RequestedStepImages(response))]
        ELSE [response |-> response, imageUrls |-> <<>>]

\* the flow's catch block
Apology ==
    <<"I", " ", "a", "p", "o", "l", "o", "g", "i", "z", "e", ",", " ", "b", "u", "t", " ", "I", " ", "e", "n", "c", "o", "u", "n", "t", "e", "r", "e", "d", " ", "a", "n", " ", "e", "r", "r", "o", "r", " ", "w", "h", "i", "l", "e", " ", "g", "e", "n", "e", "r", "a", "t", "i", "n", "g", " ", "a", " ", "r", "e", "s", "p", "o", "n", "s", "e", ".", " ", "C", "o", "u", "l", "d", " ", "y", "o", "u", " ", "p", "l", "e", "a", "s", "e", " ", "t", "r", "y", " ", "a", "s", "k", "i", "n", "g", " ", "y", "o", "u", "r", " ", "q", "u", "e", "s", "t", "i", "o", "n", " ", "a", "g", "a", "i", "n", "?">>

\* ------------------------------------------- generateResponseFromDrive: inputs

\* contentLink: `https://drive.google.com/uc?export=view&id=${file.id}`
ContentLink(id) == <<"h", "t", "t", "p", "s", ":", "/", "/", "d", "r", "i", "v", "e", ".", "g", "o", "o", "g", "l", "e", ".", "c", "o", "m", "/", "u", "c", "?", "e", "x", "p", "o", "r", "t", "=", "v", "i", "e", "w", "&", "i", "d", "=">> \o id

DriveImage(id, name) == [id |-> id, name |-> name, contentLink |-> ContentLink(id)]

ImgSetup == DriveImage(<<"a", "1">>, <<"s", "e", "t", "u", "p", ".", "p", "n", "g">>)
ImgLogin == DriveImage(<<"b", "2">>, <<"i", "m", "g", "s", "/", "l", "o", "g", "i", "n", ".", "p", "n", "g">>)
ImgMenu == DriveImage(<<"c", "3">>, <<"m", "e", "n", "u", ".", "p", "n", "g">>)
ImgHome == DriveImage(<<"d", "4">>, <<"h", "o", "m", "e", ".", "p", "n", "g">>)
ImgRootLogin == DriveImage(<<"e", "5">>, <<"l", "o", "g", "i", "n", ".", "p", "n", "g">>)
ImgError == DriveImage(<<"f", "6">>, <<"e", "r", "r", "o", "r", ".", "p", "n", "g">>)

\* What getImagesFromKnowledgeSites can resolve to: files of the folder tree,
\* each with its own id and named folder/file (an error or a missing folder
\* id gives no image).
Pools ==
    {<<>>, <<ImgSetup>>, <<ImgError>>, <<ImgLogin, ImgRootLogin>>, <<ImgSetup, ImgLogin>>,
     <<ImgLogin, ImgSetup, ImgMenu>>, <<ImgSetup, ImgLogin, ImgMenu, ImgHome>>}

\* The pieces a model answer is made of.  kind, step, name and id say which
\* tag the piece holds; text is what the model wrote.
StepTag(n, name, id) ==
    [kind |-> "step", step |-> n, name |-> name, id |-> id,
     text |-> <<"[", "i", "m", "a", "g", "e", "-", "s", "t", "e", "p">> \o n \o <<":", " ">> \o name \o <<" ", "(", "I", "D", ":", " ">> \o id \o <<")", "]">>]

GeneralTag(name, id) ==
    [kind |-> "general", step |-> <<>>, name |-> name, id |-> id,
     text |-> <<"[", "i", "m", "a", "g", "e", ":", " ">> \o name \o <<" ", "(", "I", "D", ":", " ">> \o id \o <<")", "]">>]

Prose(text) == [kind |-> "text", step |-> <<>>, name |-> <<>>, id |-> <<>>, text |-> text]

\* a tag the model wrote in the middle of other text
Wrapped(pre, tag, post) == [tag EXCEPT !.text = pre \o tag.text \o post]

Pieces ==
    {StepTag(<<"1">>, <<"s", "e", "t", "u", "p", ".", "p", "n", "g">>, <<"a", "1">>),
     StepTag(<<"2">>, <<"i", "m", "g", "s", "/", "l", "o", "g", "i", "n", ".", "p", "n", "g">>, <<"b", "2">>),
     StepTag(<<"1">>, <<"l", "o", "g", "i", "n", ".", "p", "n", "g">>, <<"e", "5">>),
     StepTag(<<"2">>, <<"p", "i", "c", ".", "p", "n", "g">>, <<"a", "1">>),
     StepTag(<<"1">>, <<"s", "e", "t", "u", "p", ".", "p", "n", "g">>, <<"z", "z">>),
     StepTag(<<"3">>, <<"n", "o", "n", "e", ".", "p", "n", "g">>, <<"z", "z">>),
     GeneralTag(<<"s", "e", "t", "u", "p", ".", "p", "n", "g">>, <<"a", "1">>),
     GeneralTag(<<"l", "o", "g", "i", "n", ".", "p", "n", "g">>, <<"e", "5">>),
     GeneralTag(<<"m", "e", "n", "u", ".", "p", "n", "g">>, <<"c", "3">>),
     Prose(<<"S", "t", "e", "p", " ", "1", ":", " ", "o", "p", "e", "n", " ", "t", "h", "e", " ", "l", "o", "g", "i", "n", " ", "p", "a", "g", "e", ".", " ">>),
     Prose(<<"D", "o", "n", "e", ".", " ">>),
     Prose(<<"O", "p", "e", "n", " ", "s", "e", "t", "u", "p", ".", "p", "n", "g", " ">>),
     Prose(<<"U", "s", "e", " ", "s", "e", "t", "u", "p", ",", " ", "l", "o", "g", "i", "n", ",", " ", "m", "e", "n", "u", ",", " ", "h", "o", "m", "e", ".", " ">>),
     Wrapped(<<"[", "i", "m", "a">>, StepTag(<<"1">>, <<"m", "e", "n", "u", ".", "p", "n", "g">>, <<"c", "3">>), <<"g", "e", ":", " ", "x", "]">>)}

Answers == UNION {[1..n -> Pieces] : n \in 0..MaxPieces}

RECURSIVE TextOf(_)
TextOf(a) == IF a = <<>> THEN <<>> ELSE a[1].text \o TextOf(Tail(a))

NoOutput == [response |-> <<>>, imageUrls |-> <<>>]

\* generateResponseFromDrive at position p with nothing done yet
GenAt(p) ==
    /\ genPc = p
    /\ knowledgeImages = <<>>
    /\ answer = <<>>
    /\ flowFailed = FALSE
    /\ flowResponse = <<>>
    /\ output = NoOutput

GenInit == GenAt("start")

\* a call of generateResponseFromDrive begins (p = "start") or none is
\* running (p = "idle")
GenReset(p) ==
    /\ genPc' = p
    /\ knowledgeImages' = <<>>
    /\ answer' = <<>>
    /\ flowFailed' = FALSE
    /\ flowResponse' = <<>>
    /\ output' = NoOutput

\* const knowledgeImages = await getImagesFromKnowledgeSites()
GetImages(pool) ==
    /\ pc = "gen"
    /\ genPc = "start"
    /\ knowledgeImages' = pool
    /\ genPc' = "flow"
    /\ UNCHANGED <<sideVars, resolveVars, modalVars, chatVars, imgVars, ticketVars, answer, flowFailed, flowResponse, output>>

\* generateResponseFromDriveFlow: the prompt answers
FlowResolves(a) ==
    /\ pc = "gen"
    /\ genPc = "flow"
    /\ answer' = a
    /\ flowResponse' = TextOf(a)
    /\ genPc' = "process"
    /\ UNCHANGED <<sideVars, resolveVars, modalVars, chatVars, imgVars, ticketVars, knowledgeImages, flowFailed, output>>

\* generateResponseFromDriveFlow: the prompt throws, the flow's catch answers
FlowFails ==
    /\ pc = "gen"
    /\ genPc = "flow"
    /\ flowFailed' = TRUE
    /\ flowResponse' = Apology
    /\ genPc' = "process"
    /\ UNCHANGED <<sideVars, resolveVars, modalVars, chatVars, imgVars, ticketVars, knowledgeImages, answer, output>>

\* the rest of generateResponseFromDrive, after the await of the flow
ExtractImages ==
    /\ pc = "gen"
    /\ genPc = "process"
    /\ output' = ProcessResponse(flowResponse, knowledgeImages)
    /\ genPc' = "done"
    /\ UNCHANGED <<sideVars, resolveVars, modalVars, chatVars, imgVars, ticketVars, knowledgeImages, answer, flowFailed, flowResponse>>

GenNext ==
    \/ \E pool \in Pools : GetImages(pool)
    \/ \E a \in Answers : FlowResolves(a)
    \/ FlowFails
    \/ ExtractImages

\* ------------------------------------------------- the <img> error handlers

\* imgUrl.match(/id=([^&]+)/): <<the captured group>> or <<>>
IdMatch(url) ==
    LET hits == {i \in 1..Len(url) :
                    /\ StartsWithAt(url, i, <<"i", "d", "=">>)
                    /\ i + 3 <= Len(url)
                    /\ url[i + 3] # "&"}
    IN  IF hits = {} THEN <<>>
        ELSE LET b == Min(hits) + 3
                 e == IndexOfFrom(url, "&", b)
             IN  <<SubSeq(url, b, IF e = 0 THEN Len(url) ELSE e - 1)>>

\* imgUrl.match(/\/d\/([^/]+)/): <<the captured group>> or <<>>
FileIdMatch(url) ==
    LET hits == {i \in 1..Len(url) :
                    /\ StartsWithAt(url, i, <<"/", "d", "/">>)
                    /\ i + 3 <= Len(url)
                    /\ url[i + 3] # "/"}
    IN  IF hits = {} THEN <<>>
        ELSE LET b == Min(hits) + 3
                 e == IndexOfFrom(url, "/", b)
             IN  <<SubSeq(url, b, IF e = 0 THEN Len(url) ELSE e - 1)>>

\* the decimal digits of a number, as `${cacheBuster}` writes them
RECURSIVE NumberText(_)
NumberText(n) ==
    LET d == <<<<"0">>, <<"1">>, <<"2">>, <<"3">>, <<"4">>, <<"5">>, <<"6">>, <<"7">>, <<"8">>, <<"9">>>>
    IN  IF n < 10 THEN d[n + 1] ELSE NumberText(n \div 10) \o d[(n % 10) + 1]

\* imgUrl.includes("?") ? `${imgUrl}&cb=${cacheBuster}` : `${imgUrl}?cb=${cacheBuster}`
CacheBusted(url, cacheBuster) ==
    url \o (IF Includes(url, <<"?">>) THEN <<"&", "c", "b", "=">> ELSE <<"?", "c", "b", "=">>) \o NumberText(cacheBuster)

\* `https://drive.google.com/uc?export=view&id=${fileId}`
ExportView(fileId) == <<"h", "t", "t", "p", "s", ":", "/", "/", "d", "r", "i", "v", "e", ".", "g", "o", "o", "g", "l", "e", ".", "c", "o", "m", "/", "u", "c", "?", "e", "x", "p", "o", "r", "t", "=", "v", "i", "e", "w", "&", "i", "d", "=">> \o fileId

\* `https://drive.google.com/file/d/${fileId}/preview`
PreviewFrame(fileId) == <<"h", "t", "t", "p", "s", ":", "/", "/", "d", "r", "i", "v", "e", ".", "g", "o", "o", "g", "l", "e", ".", "c", "o", "m", "/", "f", "i", "l", "e", "/", "d", "/">> \o fileId \o <<"/", "p", "r", "e", "v", "i", "e", "w">>

\* the inline SVG of the final fallback
Placeholder == <<"d", "a", "t", "a", ":", "i", "m", "a", "g", "e", "/", "s", "v", "g", "+", "x", "m", "l", ",">>

Fallback(strategy, el, newSrc) == [strategy |-> strategy, element |-> el, src |-> newSrc]

\* ChatMessage's onError, top to bottom.  It tests image.url, the prop, not
\* the element's current src.
ChainOnError(imgUrl, cacheBuster) ==
    IF Includes(imgUrl, <<"g", "o", "o", "g", "l", "e", "u", "s", "e", "r", "c", "o", "n", "t", "e", "n", "t", ".", "c", "o", "m">>)
    THEN Fallback("cachebust", "img", CacheBusted(imgUrl, cacheBuster))
    ELSE IF Includes(imgUrl, <<"d", "r", "i", "v", "e", ".", "g", "o", "o", "g", "l", "e", ".", "c", "o", "m">>) /\ IdMatch(imgUrl) # <<>>
    THEN Fallback("rewrite", "img", ExportView(IdMatch(imgUrl)[1]))
    ELSE IF Includes(imgUrl, <<"d", "r", "i", "v", "e", ".", "g", "o", "o", "g", "l", "e", ".", "c", "o", "m">>) /\ FileIdMatch(imgUrl) # <<>>
    THEN Fallback("rewrite", "img", ExportView(FileIdMatch(imgUrl)[1]))
    ELSE IF /\ Includes(imgUrl, <<"d", "r", "i", "v", "e", ".", "g", "o", "o", "g", "l", "e", ".", "c", "o", "m">>)
            /\ (IF IdMatch(imgUrl) # <<>> THEN IdMatch(imgUrl) ELSE FileIdMatch(imgUrl)) # <<>>
    THEN Fallback("preview", "iframe",
                  PreviewFrame((IF IdMatch(imgUrl) # <<>> THEN IdMatch(imgUrl)
                                ELSE FileIdMatch(imgUrl))[1]))
    ELSE Fallback("placeholder", "img", Placeholder)

\* ImageComponent's onError: the placeholder at once
ProxiedOnError(imgUrl) == Fallback("placeholder", "img", Placeholder)

OnError(handler, imgUrl, cacheBuster) ==
    IF handler = "chain" THEN ChainOnError(imgUrl, cacheBuster) ELSE ProxiedOnError(imgUrl)

ImageHandlers == {"chain", "proxied"}

\* The urls an image of a message can have: the CDN's direct urls, drive
\* links in the three shapes the handler tells apart, the proxy url that
\* handleSendMessage writes, and a foreign url.
ImageUrlSet ==
    {<<"h", "t", "t", "p", "s", ":", "/", "/", "l", "h", "3", ".", "g", "o", "o", "g", "l", "e", "u", "s", "e", "r", "c", "o", "n", "t", "e", "n", "t", ".", "c", "o", "m", "/", "d", "/", "a", "1">>,
     <<"h", "t", "t", "p", "s", ":", "/", "/", "l", "h", "3", ".", "g", "o", "o", "g", "l", "e", "u", "s", "e", "r", "c", "o", "n", "t", "e", "n", "t", ".", "c", "o", "m", "/", "d", "/", "a", "1", "?", "s", "z", "=", "w", "1">>,
     <<"h", "t", "t", "p", "s", ":", "/", "/", "d", "r", "i", "v", "e", ".", "g", "o", "o", "g", "l", "e", ".", "c", "o", "m", "/", "u", "c", "?", "e", "x", "p", "o", "r", "t", "=", "v", "i", "e", "w", "&", "i", "d", "=", "a", "1">>,
     <<"h", "t", "t", "p", "s", ":", "/", "/", "d", "r", "i", "v", "e", ".", "g", "o", "o", "g", "l", "e", ".", "c", "o", "m", "/", "f", "i", "l", "e", "/", "d", "/", "a", "1", "/", "v", "i", "e", "w">>,
     <<"h", "t", "t", "p", "s", ":", "/", "/", "d", "r", "i", "v", "e", ".", "g", "o", "o", "g", "l", "e", ".", "c", "o", "m", "/", "d", "r", "i", "v", "e", "/", "f", "o", "l", "d", "e", "r", "s">>,
     <<"/", "a", "p", "i", "/", "i", "m", "a", "g", "e", "-", "p", "r", "o", "x", "y", "?", "f", "i", "l", "e", "I", "d", "=", "a", "1">>,
     <<"h", "t", "t", "p", "s", ":", "/", "/", "e", "x", "a", "m", "p", "l", "e", ".", "c", "o", "m", "/", "a", ".", "p", "n", "g">>}

ImgInit ==
    /\ imgHandler = "chain"
    /\ imageUrl = <<>>
    /\ element = "img"
    /\ src = <<>>
    /\ imgPc = "unmounted"
    /\ attempts = <<>>
    /\ now = 1

\* Date.now() at the next failure: later by one or two ticks; only the
\* current value is kept, modulo MaxNow.
Later(t) == {(t % MaxNow) + 1, ((t + 1) % MaxNow) + 1}

\* the message is rendered: <img src={image.url}>
Mount(handler, url) ==
    /\ imgPc = "unmounted"
    /\ imgHandler' = handler
    /\ imageUrl' = url
    /\ element' = "img"
    /\ src' = url
    /\ imgPc' = "loading"
    /\ UNCHANGED <<sideVars, resolveVars, modalVars, chatVars, genVars, ticketVars, attempts, now>>

\* the load of the current src succeeds: onLoad (styles only)
ImgLoads ==
    /\ imgPc = "loading"
    /\ imgPc' = "loaded"
    /\ UNCHANGED <<sideVars, resolveVars, modalVars, chatVars, genVars, ticketVars, imgHandler, imageUrl, element, src, attempts, now>>

\* the load of the current src fails: the error event runs onError.  The
\* inline placeholder needs no fetch and does not fail.
ImgFails(t) ==
    /\ imgPc = "loading"
    /\ src # Placeholder
    /\ LET f == OnError(imgHandler, imageUrl, t)
       IN  /\ element' = f.element
           /\ src' = f.src
           /\ imgPc' = IF f.element = "iframe" THEN "frame" ELSE "loading"
           /\ attempts' = IF Len(attempts) < MaxAttempts
                          THEN Append(attempts, f.strategy) ELSE attempts
    /\ now' = t
    /\ UNCHANGED <<sideVars, resolveVars, modalVars, chatVars, genVars, ticketVars, imgHandler, imageUrl>>

ImgFailure == \E t \in Later(now) : ImgFails(t)

ImgNext ==
    \/ \E h \in ImageHandlers : \E u \in ImageUrlSet : Mount(h, u)
    \/ ImgLoads
    \/ ImgFailure

\* --------------------------------------------- POST /api/create-ticket

\* A JSON value in the place of `question`, by its type; the text of a string
\* is a sequence, empty for the empty string.
Undefined == [t |-> "undefined", s |-> <<>>, n |-> 0]
JsonNull == [t |-> "null", s |-> <<>>, n |-> 0]
JsonString(s) == [t |-> "string", s |-> s, n |-> 0]
JsonNumber(n) == [t |-> "number", s |-> <<>>, n |-> n]

Questions ==
    {Undefined, JsonNull, JsonString(<<>>), JsonString(<<" ">>), JsonString(<<"hello">>),
     JsonNumber(0), JsonNumber(5)}

\* What request.json() meets: text that is not JSON, the JSON value null, or
\* an object with or without the fields question and userEmail.
TicketBodies ==
    [kind : {"invalid", "null"}, question : {Undefined}, userEmail : {Undefined}]
    \cup [kind : {"object"}, question : Questions,
          userEmail : {Undefined, JsonString(<<"a@b.c">>)}]

\* Date.now() when the ticket id is made
TicketTimes == {42, 1234567, 2000000001}

\* mutant: the question is not tested
QuestionGivenAlways(q) == TRUE

\* the truthiness of `question` in if (!question)
QuestionGiven(q) ==
    \/ q.t = "string" /\ q.s # <<>>
    \/ q.t = "number" /\ q.n # 0

NoReply ==
    [status |-> 0, success |-> FALSE, ticketId |-> <<>>, error |-> NoValue,
     message |-> NoValue]

\* NextResponse.json({ error: "Missing required field: question" }, { status: 400 })
MissingQuestionReply ==
    [NoReply EXCEPT !.status = 400, !.error = "Missing required field: question"]

\* catch (error): NextResponse.json({ error: "Failed to create ticket" }, { status: 500 })
FailedReply == [NoReply EXCEPT !.status = 500, !.error = "Failed to create ticket"]

\* str.slice(-n)
LastChars(str, n) == IF Len(str) <= n THEN str ELSE SubSeq(str, Len(str) - n + 1, Len(str))

\* `TICKET-${Date.now().toString().slice(-6)}`
TicketId(t) == <<"T", "I", "C", "K", "E", "T", "-">> \o LastChars(NumberText(t), 6)

\* NextResponse.json({ success: true, ticketId, message })
CreatedReply(t) ==
    [NoReply EXCEPT !.status = 200, !.success = TRUE, !.ticketId = <<TicketId(t)>>,
                    !.message = "Ticket created successfully. Our team will review your question."]

TicketInit ==
    /\ ticketPc = "idle"
    /\ ticketBody = <<>>
    /\ ticketReply = NoReply
    /\ ticketReplies = <<>>

\* POST up to its timer: the body is read and destructured, the question
\* tested
PostReceives(body) ==
    /\ ticketBody' = <<body>>
    /\ IF body.kind # "object"
       THEN ticketPc' = "answered" /\ ticketReply' = FailedReply
       ELSE IF ~QuestionGiven(body.question)
       THEN ticketPc' = "answered" /\ ticketReply' = MissingQuestionReply
       ELSE ticketPc' = "creating" /\ ticketReply' = NoReply

\* a request sent to the route by some caller other than the chat page
POST(body) ==
    /\ ticketPc = "idle"
    /\ creating = <<>>
    /\ Len(ticketReplies) < MaxRequests
    /\ PostReceives(body)
    /\ UNCHANGED <<sideVars, resolveVars, modalVars, chatVars, genVars, imgVars, ticketReplies>>

\* the 500 ms timer fires: the mock ticket id is made and returned
TicketCreated(t) ==
    /\ ticketPc = "creating"
    /\ ticketPc' = "answered"
    /\ ticketReply' = CreatedReply(t)
    /\ UNCHANGED <<sideVars, resolveVars, modalVars, chatVars, genVars, imgVars, ticketBody, ticketReplies>>

\* the response reaches the caller
TicketAnswered ==
    /\ ticketPc = "answered"
    /\ creating = <<>>
    /\ ticketPc' = "idle"
    /\ ticketReplies' = Append(ticketReplies, ticketReply.status)
    /\ UNCHANGED <<sideVars, resolveVars, modalVars, chatVars, genVars, imgVars, ticketBody, ticketReply>>

TicketNext ==
    \/ \E body \in TicketBodies : POST(body)
    \/ \E t \in TicketTimes : TicketCreated(t)
    \/ TicketAnswered

\* ------------------------------------------------- POST /api/image-url

FileIds ==
    {Undefined, JsonNull, JsonString(<<>>), JsonString(<<"a", "1">>), JsonString(<<"b", "2">>),
     JsonNumber(0), JsonNumber(5)}

\* What request.json() meets: text that is not JSON, the JSON value null, or
\* an object with or without the field fileId.
RouteBodies ==
    [kind : {"invalid", "null"}, fileId : {Undefined}]
    \cup [kind : {"object"}, fileId : FileIds]

\* the truthiness of `fileId` in if (!fileId)
FileIdGiven(v) ==
    \/ v.t = "string" /\ v.s # <<>>
    \/ v.t = "number" /\ v.n # 0

\* `${fileId}`
FileIdText(v) == IF v.t = "number" THEN NumberText(v.n) ELSE v.s

NoRouteReply == [status |-> 0, url |-> <<>>, error |-> NoValue]

\* NextResponse.json({ error: "Missing required field: fileId" }, { status: 400 })
MissingFileIdReply ==
    [NoRouteReply EXCEPT !.status = 400, !.error = "Missing required field: fileId"]

\* catch (error): NextResponse.json({ error: "Failed to get direct image URL" }, { status: 500 })
RouteFailedReply ==
    [NoRouteReply EXCEPT !.status = 500, !.error = "Failed to get direct image URL"]

\* NextResponse.json({ url })
UrlReply(url) == [NoRouteReply EXCEPT !.status = 200, !.url = <<url>>]

\* what POST answers once getActualImageUrl returned directUrl: the fallback
\* for null and for the empty string
DirectUrlReply(fileId, directUrl) ==
    IF directUrl = <<>> \/ directUrl[1] = <<>>
    THEN UrlReply(ExportView(FileIdText(fileId)))
    ELSE UrlReply(directUrl[1])

\* How the scrape in the launched browser ends: a step of it throws, the page
\* has no img element, its img has no src, or the src is read.
Scrapes == {"newPage", "goto", "waitForSelector", "evaluate", "no img", "no src", "src"}

\* the src the viewer page shows for the file
ViewerSrc(fileId) == <<"h", "t", "t", "p", "s", ":", "/", "/", "l", "h", "3", ".", "g", "o", "o", "g", "l", "e", "u", "s", "e", "r", "c", "o", "n", "t", "e", "n", "t", ".", "c", "o", "m", "/", "d", "/">> \o FileIdText(fileId)

\* what the try block returns, or the catch block when a step threw
ScrapeReturns(how, fileId) ==
    CASE how = "src" -> <<ViewerSrc(fileId)>>
      [] how = "no src" -> <<<<>>>>
      [] OTHER -> <<>>

\* mutant: the finally block closes nothing
FinallyClosesNever(b) == FALSE

\* finally { if (browser) { await browser.close(); } }
FinallyCloses(b) == b # "null"

RouteInit ==
    /\ routePc = "idle"
    /\ routeBody = <<>>
    /\ browser = "null"
    /\ scraped = <<>>
    /\ closeCalls = 0
    /\ routeReply = NoRouteReply
    /\ routeReplies = <<>>

\* POST up to puppeteer.launch: the body is read and destructured, the
\* fileId tested, getActualImageUrl entered with browser = null
RoutePost(body) ==
    /\ routePc = "idle"
    /\ Len(routeReplies) < MaxRequests
    /\ routeBody' = <<body>>
    /\ browser' = "null"
    /\ scraped' = <<>>
    /\ closeCalls' = 0
    /\ IF body.kind # "object"
       THEN routePc' = "answered" /\ routeReply' = RouteFailedReply
       ELSE IF ~FileIdGiven(body.fileId)
       THEN routePc' = "answered" /\ routeReply' = MissingFileIdReply
       ELSE routePc' = "launching" /\ routeReply' = NoRouteReply
    /\ UNCHANGED <<renderVars, chatVars, genVars, imgVars, ticketVars, resolveVars, modalVars,
                   routeReplies>>

\* puppeteer.launch resolves
Launched ==
    /\ routePc = "launching"
    /\ routePc' = "scraping"
    /\ browser' = "open"
    /\ UNCHANGED <<renderVars, chatVars, genVars, imgVars, ticketVars, resolveVars, modalVars,
                   routeBody, scraped, closeCalls, routeReply, routeReplies>>

\* puppeteer.launch rejects: catch returns null, finally finds no browser,
\* and POST answers with the fallback
LaunchFails ==
    /\ routePc = "launching"
    /\ routePc' = "answered"
    /\ routeReply' = DirectUrlReply(routeBody[1].fileId, <<>>)
    /\ UNCHANGED <<renderVars, chatVars, genVars, imgVars, ticketVars, resolveVars, modalVars,
                   routeBody, browser, scraped, closeCalls, routeReplies>>

\* the scrape ends, in the try block or in the catch block, and the finally
\* block runs up to its await browser.close()
Scrape(how) ==
    /\ routePc = "scraping"
    /\ scraped' = ScrapeReturns(how, routeBody[1].fileId)
    /\ IF FinallyCloses(browser)
       THEN /\ routePc' = "closing"
            /\ closeCalls' = closeCalls + 1
            /\ routeReply' = routeReply
       ELSE /\ routePc' = "answered"
            /\ closeCalls' = closeCalls
            /\ routeReply' = DirectUrlReply(routeBody[1].fileId, scraped')
    /\ UNCHANGED <<renderVars, chatVars, genVars, imgVars, ticketVars, resolveVars, modalVars,
                   routeBody, browser, routeReplies>>

\* browser.close() resolves: getActualImageUrl returns what the try or catch
\* block returned and POST answers
CloseResolves ==
    /\ routePc = "closing"
    /\ routePc' = "answered"
    /\ browser' = "closed"
    /\ routeReply' = DirectUrlReply(routeBody[1].fileId, scraped)
    /\ UNCHANGED <<renderVars, chatVars, genVars, imgVars, ticketVars, resolveVars, modalVars,
                   routeBody, scraped, closeCalls, routeReplies>>

\* browser.close() rejects: the rejection replaces the return value of
\* getActualImageUrl and lands in the catch block of POST
CloseRejects ==
    /\ routePc = "closing"
    /\ routePc' = "answered"
    /\ routeReply' = RouteFailedReply
    /\ UNCHANGED <<renderVars, chatVars, genVars, imgVars, ticketVars, resolveVars, modalVars,
                   routeBody, browser, scraped, closeCalls, routeReplies>>

\* the response reaches the caller
RouteAnswered ==
    /\ routePc = "answered"
    /\ routePc' = "idle"
    /\ routeReplies' = Append(routeReplies, routeReply.status)
    /\ UNCHANGED <<renderVars, chatVars, genVars, imgVars, ticketVars, resolveVars, modalVars,
                   routeBody, browser, scraped, closeCalls, routeReply>>

RouteNext ==
    \/ \E body \in RouteBodies : RoutePost(body)
    \/ Launched
    \/ LaunchFails
    \/ \E how \in Scrapes : Scrape(how)
    \/ CloseResolves
    \/ CloseRejects
    \/ RouteAnswered

\* ---------------------------------------------------- StepImageRenderer

\* the lines a message is made of
RenderLines == {<<"G", "o", ":">>, <<"1", ".", " ", "A">>, <<"2", ".", " ", "B">>, <<"3", ".", " ", "C">>, <<"-", " ", "x">>}

RECURSIVE JoinLines(_)
JoinLines(lines) ==
    IF lines = <<>> THEN <<>>
    ELSE IF Len(lines) = 1 THEN lines[1]
    ELSE lines[1] \o <<"\n">> \o JoinLines(Tail(lines))

RenderContents ==
    {JoinLines(lines) : lines \in UNION {[1..n -> RenderLines] : n \in 0..MaxLines}}

StepIdOfNumber(n) == <<"s", "t", "e", "p", "-">> \o NumberText(n)

MessageImage(url, stepId) ==
    [url |-> url, alt |-> 1, stepId |-> stepId, needsDirectUrl |-> FALSE]

\* the images of a message: any of an image for step 1, one for step 2 and
\* one without a step, in this order
RenderImageLists ==
    {a \o b \o c : a \in {<<>>, <<MessageImage(<<"/", "u", "1">>, StepIdOfNumber(1))>>},
                   b \in {<<>>, <<MessageImage(<<"/", "u", "2">>, StepIdOfNumber(2))>>},
                   c \in {<<>>, <<MessageImage(<<"/", "u", "3">>, NoStep)>>}}

TextItem(text) == [kind |-> "text", text |-> text, image |-> <<>>]
\* an image under a step
ImageItem(image) == [kind |-> "image", text |-> <<>>, image |-> <<image>>]
\* an image in the block of related images at the end
RelatedItem(image) == [kind |-> "related", text |-> <<>>, image |-> <<image>>]

\* content.split("\n")
RECURSIVE SplitLines(_)
SplitLines(text) ==
    LET nl == IndexOfFrom(text, "\n", 1)
    IN  IF nl = 0 THEN <<text>>
        ELSE <<SubSeq(text, 1, nl - 1)>> \o SplitLines(SubSeq(text, nl + 1, Len(text)))

\* how many characters of the set follow one another from position i on
RECURSIVE RunOf(_, _, _)
RunOf(text, i, set) ==
    IF i > Len(text) \/ text[i] \notin set THEN 0 ELSE 1 + RunOf(text, i + 1, set)

\* line.match(/^(\d+)\.\s+/)
ListItemMatch(line) ==
    LET d == RunOf(line, 1, Digits)
    IN  /\ d >= 1
        /\ d + 2 <= Len(line)
        /\ line[d + 1] = "."
        /\ line[d + 2] \in WhiteSpace

\* images.filter((img) => img.stepId === stepId)
StepImagesOf(imgs, stepId) == SelectSeq(imgs, LAMBDA img : img.stepId = stepId)

ImageItems(imgs) == [k \in DOMAIN imgs |-> ImageItem(imgs[k])]

\* the loop over the lines: each line, and after a line that starts a numbered
\* item the images of `step-${stepCounter}`
RECURSIVE InjectFrom(_, _, _, _)
InjectFrom(lines, i, stepCounter, imgs) ==
    IF i > Len(lines) THEN <<>>
    ELSE IF ListItemMatch(lines[i])
    THEN <<TextItem(lines[i])>>
         \o ImageItems(StepImagesOf(imgs, StepIdOfNumber(stepCounter)))
         \o InjectFrom(lines, i + 1, stepCounter + 1, imgs)
    ELSE <<TextItem(lines[i])>> \o InjectFrom(lines, i + 1, stepCounter, imgs)

\* processedContent, as what ReactMarkdown with rehype-raw shows of it
ProcessedContent(content, imgs) ==
    IF Len(imgs) = 0 THEN <<TextItem(content)>>
    ELSE InjectFrom(SplitLines(content), 1, 1, imgs)

\* ^ with the m flag
LineStart(text, q) == q = 1 \/ text[q - 1] \in {"\n", "\r"}

\* /^\s*\d+\.\s/m matches at q
NumberedAt(text, q) ==
    LET a == q + RunOf(text, q, WhiteSpace)
        d == RunOf(text, a, Digits)
    IN  /\ LineStart(text, q)
        /\ d >= 1
        /\ a + d + 1 <= Len(text)
        /\ text[a + d] = "."
        /\ text[a + d + 1] \in WhiteSpace

\* /^\s*[-*]\s/m matches at q
BulletAt(text, q) ==
    LET a == q + RunOf(text, q, WhiteSpace)
    IN  /\ LineStart(text, q)
        /\ a + 1 <= Len(text)
        /\ text[a] \in {"-", "*"}
        /\ text[a + 1] \in WhiteSpace

HasNumberedSteps(text) == \E q \in 1..Len(text) : NumberedAt(text, q)
HasBulletPoints(text) == \E q \in 1..Len(text) : BulletAt(text, q)

\* the group (\d+\.|[-*]) of the lookahead that matches at q
SplitCapture(text, q) ==
    LET a == q + RunOf(text, q, WhiteSpace)
    IN  IF NumberedAt(text, q) THEN SubSeq(text, a, a + RunOf(text, a, Digits))
        ELSE <<text[a]>>

\* String.prototype.split with the lookahead: an empty match splits at every
\* position but the first, and the captured group goes into the result
RECURSIVE SplitAtSteps(_, _)
SplitAtSteps(text, p) ==
    LET points == {q \in (p + 1)..Len(text) : NumberedAt(text, q) \/ BulletAt(text, q)}
    IN  IF points = {} THEN <<SubSeq(text, p, Len(text))>>
        ELSE LET q == Min(points)
             IN  <<SubSeq(text, p, q - 1), SplitCapture(text, q)>> \o SplitAtSteps(text, q)

\* content.split(/(?=^\s*(\d+\.|[-*])\s)/m).filter(s => s.trim())
Sections(content) ==
    SelectSeq(SplitAtSteps(content, 1), LAMBDA t : \E i \in DOMAIN t : t[i] \notin WhiteSpace)

\* parseInt of a run of digits
RECURSIVE DigitsValue(_)
DigitsValue(digits) ==
    IF digits = <<>> THEN 0
    ELSE 10 * DigitsValue(SubSeq(digits, 1, Len(digits) - 1))
         + (CHOOSE v \in 0..9 : NumberText(v) = <<digits[Len(digits)]>>)

\* hasNumberedSteps ? parseInt(section.match(/^\s*(\d+)/)?.[1] ?? (index + 1).toString(), 10) : index + 1
StepNumber(section, index, numbered) ==
    LET a == 1 + RunOf(section, 1, WhiteSpace)
        d == RunOf(section, a, Digits)
    IN  IF numbered /\ d >= 1 THEN DigitsValue(SubSeq(section, a, a + d - 1))
        ELSE index + 1

\* sections.map: each section with the images of its step
RECURSIVE SectionItems(_, _, _, _)
SectionItems(sections, k, numbered, imgs) ==
    IF k > Len(sections) THEN <<>>
    ELSE <<TextItem(sections[k])>>
         \o ImageItems(StepImagesOf(imgs, StepIdOfNumber(StepNumber(sections[k], k - 1, numbered))))
         \o SectionItems(sections, k + 1, numbered, imgs)

\* usedImageUrls after the map
UsedImageUrls(sections, numbered, imgs) ==
    {img.url : img \in
        {imgs[i] : i \in {i \in DOMAIN imgs : \E k \in DOMAIN sections :
            imgs[i].stepId = StepIdOfNumber(StepNumber(sections[k], k - 1, numbered))}}}

RelatedItems(imgs) == [k \in DOMAIN imgs |-> RelatedItem(imgs[k])]

\* the second StepImageRenderer
RenderedSections(content, imgs) ==
    IF Len(imgs) = 0 THEN <<TextItem(content)>>
    ELSE IF ~HasNumberedSteps(content) /\ ~HasBulletPoints(content)
    THEN <<TextItem(content)>> \o RelatedItems(imgs)
    ELSE LET sections == Sections(content)
             numbered == HasNumberedSteps(content)
             used == UsedImageUrls(sections, numbered, imgs)
         IN  SectionItems(sections, 1, numbered, imgs)
             \o RelatedItems(SelectSeq(imgs, LAMBDA img : img.url \notin used))

\* nothing is being rendered
RenderInit ==
    /\ renderer = "injected"
    /\ renderContent = <<>>
    /\ renderImages = <<>>
    /\ renderPc = "rendered"
    /\ rendered = <<TextItem(<<>>)>>

\* ChatMessage hands the props of a message to StepImageRenderer
RenderGiven ==
    /\ renderer \in {"injected", "sections"}
    /\ renderContent \in RenderContents
    /\ renderImages \in RenderImageLists
    /\ renderPc = "props"
    /\ rendered = <<>>

\* StepImageRenderer, the revision that injects the images into the markdown
RenderInjected ==
    /\ renderPc = "props"
    /\ renderer = "injected"
    /\ rendered' = ProcessedContent(renderContent, renderImages)
    /\ renderPc' = "rendered"
    /\ UNCHANGED <<chatVars, genVars, imgVars, ticketVars, resolveVars, modalVars,
                   routeVars, renderer, renderContent, renderImages>>

\* StepImageRenderer, the revision that renders section by section
RenderSections ==
    /\ renderPc = "props"
    /\ renderer = "sections"
    /\ rendered' = RenderedSections(renderContent, renderImages)
    /\ renderPc' = "rendered"
    /\ UNCHANGED <<chatVars, genVars, imgVars, ticketVars, resolveVars, modalVars,
                   routeVars, renderer, renderContent, renderImages>>

RenderNext == RenderInjected \/ RenderSections

\* ------------------------------------------------------------- input sets

Variants == {"layout", "part006"}
Inputs == {"", " ", "hello", "attack"}
Feedbacks == {"be kind", "no threats"}
\* An error thrown by the moderation prompt, by what the flow tests of it.
PromptErrors == [isError : BOOLEAN, has503 : BOOLEAN, hasOverloaded : BOOLEAN]
ModerationOutputs == [isHarmful : BOOLEAN, feedback : Feedbacks]
\* What getKnowledgeBase finds: the folder id and the credentials in the
\* environment, whether the listing and the content fetches succeed, and the
\* number of documents in the folder.
DriveEnvs ==
    [folderId : BOOLEAN, credentials : BOOLEAN, listOk : BOOLEAN,
     files : 0..MaxFiles, contentOk : BOOLEAN]
\* The pools and answers of the turns of the chat.
ChatPools == {<<>>, <<ImgSetup>>}
ChatAnswers ==
    {<<>>, <<Prose(<<"D", "o", "n", "e", ".", " ">>)>>, <<StepTag(<<"1">>, <<"s", "e", "t", "u", "p", ".", "p", "n", "g">>, <<"a", "1">>)>>,
     <<Prose(<<"D", "o", "n", "e", ".", " ">>), StepTag(<<"1">>, <<"s", "e", "t", "u", "p", ".", "p", "n", "g">>, <<"a", "1">>)>>}

\* --------------------------------------------------- moderateChatContentFlow

maxRetries == 3

\* mutant: the loop test off by one
LoopContinuesInclusive(r) == r <= maxRetries

\* while (retries < maxRetries)
LoopContinues(r) == r < maxRetries

\* mutant: only the status text is tested
IsOverloadErrorStatusOnly(e) == e.has503

\* error instanceof Error && toString() includes "503 Service Unavailable"
\* && toString() includes "The model is overloaded"
IsOverloadError(e) == e.isError /\ e.has503 /\ e.hasOverloaded

\* setTimeout(resolve, 1000 * Math.pow(2, retries))
RECURSIVE Pow2(_)
Pow2(n) == IF n = 0 THEN 1 ELSE 2 * Pow2(n - 1)

\* mutant: linear instead of exponential backoff
BackoffDelayLinear(r) == 1000 * (r + 1)

BackoffDelay(r) == 1000 * Pow2(r)

\* ---------------------------------------------------------- getKnowledgeBase

NoDocumentsSentence ==
    <<"I", " ", "a", "m", " ", "s", "o", "r", "r", "y", ",", " ", "I", " ", "c", "a", "n", "n", "o", "t", " ", "a", "n", "s", "w", "e", "r", " ", "t", "h", "i", "s", " ", "q", "u", "e", "s", "t", "i", "o", "n", " ", "b", "a", "s", "e", "d", " ", "o", "n", " ", "t", "h", "e", " ", "p", "r", "o", "v", "i", "d", "e", "d", " ", "G", "o", "o", "g", "l", "e", " ", "D", "r", "i", "v", "e", " ", "d", "a", "t", "a", ",", " ", "a", "s", " ", "n", "o", " ", "r", "e", "l", "e", "v", "a", "n", "t", " ", "d", "o", "c", "u", "m", "e", "n", "t", "s", " ", "w", "e", "r", "e", " ", "f", "o", "u", "n", "d", ".">>

\* `Error: Could not load knowledge base from Google Drive. Details: ${errorMessage}`
CouldNotLoad(errorMessage) ==
    <<"E", "r", "r", "o", "r", ":", " ", "C", "o", "u", "l", "d", " ", "n", "o", "t", " ", "l", "o", "a", "d", " ", "k", "n", "o", "w", "l", "e", "d", "g", "e", " ", "b", "a", "s", "e", " ", "f", "r", "o", "m", " ", "G", "o", "o", "g", "l", "e", " ", "D", "r", "i", "v", "e", ".", " ", "D", "e", "t", "a", "i", "l", "s", ":", " ">> \o errorMessage

\* `Document: ${file.name}\nContent:\n${content}\n---`
DocumentText(i) ==
    <<"D", "o", "c", "u", "m", "e", "n", "t", ":", " ", "d", "o", "c">> \o NumberText(i) \o <<"\n">> \o <<"C", "o", "n", "t", "e", "n", "t", ":">> \o <<"\n">>
        \o <<"O", "p", "e", "n", " ", "t", "h", "e", " ", "m", "e", "n", "u", ".">> \o <<"\n">> \o <<"-", "-", "-">>

\* docContents.join("\n")
RECURSIVE JoinDocuments(_)
JoinDocuments(n) ==
    IF n = 0 THEN <<>>
    ELSE IF n = 1 THEN DocumentText(1)
    ELSE JoinDocuments(n - 1) \o <<"\n">> \o DocumentText(n)

GetKnowledgeBase(env) ==
    IF ~env.folderId
    THEN <<"E", "r", "r", "o", "r", ":", " ", "T", "h", "e", " ", "G", "O", "O", "G", "L", "E", "_", "D", "R", "I", "V", "E", "_", "F", "O", "L", "D", "E", "R", "_", "I", "D", " ", "e", "n", "v", "i", "r", "o", "n", "m", "e", "n", "t", " ", "v", "a", "r", "i", "a", "b", "l", "e", " ", "i", "s", " ", "n", "o", "t", " ", "c", "o", "n", "f", "i", "g", "u", "r", "e", "d", ".", " ", "P", "l", "e", "a", "s", "e", " ", "s", "e", "t", " ", "i", "t", " ", "i", "n", " ", "y", "o", "u", "r", " ", ".", "e", "n", "v", " ", "f", "i", "l", "e", " ", "a", "n", "d", " ", "r", "e", "s", "t", "a", "r", "t", " ", "t", "h", "e", " ", "d", "e", "v", "e", "l", "o", "p", "m", "e", "n", "t", " ", "s", "e", "r", "v", "e", "r", ".">>
    ELSE IF ~env.credentials
    THEN CouldNotLoad(<<"G", "o", "o", "g", "l", "e", " ", "D", "r", "i", "v", "e", " ", "c", "r", "e", "d", "e", "n", "t", "i", "a", "l", "s", " ", "(", "G", "O", "O", "G", "L", "E", "_", "P", "R", "I", "V", "A", "T", "E", "_", "K", "E", "Y", ",", " ", "G", "O", "O", "G", "L", "E", "_", "C", "L", "I", "E", "N", "T", "_", "E", "M", "A", "I", "L", ")", " ", "a", "r", "e", " ", "n", "o", "t", " ", "c", "o", "n", "f", "i", "g", "u", "r", "e", "d", ".">>)
    ELSE IF ~env.listOk
    THEN CouldNotLoad(<<"F", "a", "i", "l", "e", "d", " ", "t", "o", " ", "l", "i", "s", "t", " ", "f", "i", "l", "e", "s", " ", "f", "r", "o", "m", " ", "G", "o", "o", "g", "l", "e", " ", "D", "r", "i", "v", "e", ".">>)
    ELSE IF env.files = 0
    THEN NoDocumentsSentence
    ELSE IF ~env.contentOk
    THEN CouldNotLoad(<<"F", "a", "i", "l", "e", "d", " ", "t", "o", " ", "g", "e", "t", " ", "c", "o", "n", "t", "e", "n", "t", " ", "f", "o", "r", " ", "f", "i", "l", "e", " ", "d", "o", "c", "1", ".">>)
    ELSE JoinDocuments(env.files)

\* ------------------------------------------------------- handleSendMessage

NoResult ==
    [kind |-> NoValue, error |-> NoValue, feedback |-> NoValue, detail |-> NoValue,
     response |-> <<>>, images |-> <<>>, suggestTicket |-> FALSE]

\* return { error: `Message flagged as harmful. ${moderationResult.feedback}` }
FlaggedResult(mr) ==
    [NoResult EXCEPT !.kind = "error", !.error = "Message flagged as harmful.",
                     !.feedback = mr.feedback]

\* catch (e): return { error: `An unexpected error occurred ...: ${errorMessage}` }
UnexpectedResult(d) ==
    [NoResult EXCEPT !.kind = "error", !.error = "An unexpected error occurred",
                     !.detail = d]

KnowledgeBaseErrorResult ==
    [NoResult EXCEPT !.kind = "error",
                     !.error = "I am having trouble accessing my knowledge base"]

\* mutant: no error string is recognised
IsKnowledgeBaseErrorNever(kb) == FALSE

\* knowledgeBase.startsWith("Error:")
IsKnowledgeBaseError(kb) == StartsWithAt(kb, 1, <<"E", "r", "r", "o", "r", ":">>)

\* mutant: the no-documents sentence is not recognised
IsNoDocumentsNever(kb) == FALSE

\* knowledgeBase === "I am sorry, ... no relevant documents were found."
IsNoDocuments(kb) == kb = NoDocumentsSentence

TicketOffer ==
    <<" ", "W", "o", "u", "l", "d", " ", "y", "o", "u", " ", "l", "i", "k", "e", " ", "t", "o", " ", "c", "r", "e", "a", "t", "e", " ", "a", " ", "t", "i", "c", "k", "e", "t", " ", "f", "o", "r", " ", "t", "h", "i", "s", " ", "q", "u", "e", "s", "t", "i", "o", "n", " ", "s", "o", " ", "o", "u", "r", " ", "t", "e", "a", "m", " ", "c", "a", "n", " ", "f", "o", "l", "l", "o", "w", " ", "u", "p", "?">>

\* mutant: the reply without the ticket suggestion
NoDocumentsResultPlain(kb) ==
    [NoResult EXCEPT !.kind = "response", !.response = <<kb>>]

\* return { response: knowledgeBase + " Would you like ...", suggestTicket: true }
NoDocumentsResult(kb) ==
    [NoResult EXCEPT !.kind = "response", !.response = <<kb \o TicketOffer>>,
                     !.suggestTicket = TRUE]

\* `/api/image-proxy?fileId=${fileId}`
ProxyUrl(fileId) == <<"/", "a", "p", "i", "/", "i", "m", "a", "g", "e", "-", "p", "r", "o", "x", "y", "?", "f", "i", "l", "e", "I", "d", "=">> \o fileId

ProxiedImage(fileId, index, stepId) ==
    [url |-> ProxyUrl(fileId), alt |-> index, stepId |-> stepId]

\* the callback of responseResult.imageUrls.map: <<the image>> or <<>> (null)
MapImage(imageData, index) ==
    IF imageData.id # <<>>
    THEN <<ProxiedImage(imageData.id, index, imageData.stepId)>>
    ELSE IF ~StartsWithAt(imageData.url, 1, <<"h", "t", "t", "p">>)
    THEN <<>>
    ELSE IF IdMatch(imageData.url) # <<>>
    THEN <<ProxiedImage(IdMatch(imageData.url)[1], index, imageData.stepId)>>
    ELSE <<>>

\* responseResult.imageUrls.map(...).filter(img => img !== null)
RECURSIVE MapImagesFrom(_, _)
MapImagesFrom(imageUrls, index) ==
    IF index > Len(imageUrls) THEN <<>>
    ELSE MapImage(imageUrls[index], index) \o MapImagesFrom(imageUrls, index + 1)

\* responseData: images only when the mapped array is not empty
ResponseResult(out) ==
    [NoResult EXCEPT !.kind = "response", !.response = <<out.response>>,
                     !.images = MapImagesFrom(out.imageUrls, 1)]

\* The server action's promise rejected (it never resolved with a value).
ThrownResult == [NoResult EXCEPT !.kind = "thrown"]

\* mutant: the harmful branch does not return
ModerationGateOpen(mr) == FALSE

\* if (moderationResult.isHarmful) return {error}; otherwise go on to the
\* knowledge base.  TRUE: the turn stops here.
ModerationGate(mr) == mr.isHarmful

\* ------------------------------------------------------------ handleSubmit

\* mutant: no input counts as blank
IsBlankNever(s) == FALSE

\* !input.trim()
IsBlank(s) == s \in {"", " "}

UserMessage(id, text) ==
    [id |-> id, role |-> "user", content |-> <<text>>, images |-> <<>>,
     suggestTicket |-> FALSE, ticketCreated |-> FALSE, ticketId |-> <<>>]

\* The callback of result.images.map in handleSubmit: a Google Drive link that
\* is not a googleusercontent one is flagged for the direct-url fetch.  The
\* handleSubmit of chat-layout.tsx passes the images on as they are.
ProcessedImage(image) ==
    [url |-> image.url, alt |-> image.alt, stepId |-> image.stepId,
     needsDirectUrl |->
        /\ variant = "part006"
        /\ Includes(image.url, <<"d", "r", "i", "v", "e", ".", "g", "o", "o", "g", "l", "e", ".", "c", "o", "m">>)
        /\ ~Includes(image.url, <<"g", "o", "o", "g", "l", "e", "u", "s", "e", "r", "c", "o", "n", "t", "e", "n", "t", ".", "c", "o", "m">>)]

ProcessedImages(images) == [k \in DOMAIN images |-> ProcessedImage(images[k])]

\* content: result.response || ""
BotMessage(id, r) ==
    [id |-> id, role |-> "assistant",
     content |-> IF r.response = <<>> THEN <<>> ELSE r.response[1],
     images |-> ProcessedImages(r.images), suggestTicket |-> r.suggestTicket,
     ticketCreated |-> FALSE, ticketId |-> <<>>]

\* mutant: the optimistic message is kept
RemoveMessageKept(msgs, id) == msgs

\* prev.filter((msg) => msg.id !== userMessageId)
RemoveMessage(msgs, id) == SelectSeq(msgs, LAMBDA m : m.id # id)

\* result.error is tested for truthiness
Truthy(s) == s # NoValue /\ s # ""

\* result.response is tested for truthiness: set and not the empty string
TruthyText(t) == t # <<>> /\ t[1] # <<>>

Toast(title, r) == [title |-> title, description |-> r.error, feedback |-> r.feedback]

InFlight == pc \in {"mod_call", "mod_wait", "kb", "gen"}

\* ------------------------------------------------------------ processImages

\* The image at <<i, j>> makes processImages await a direct url: it is flagged
\* and one of the two id patterns matches its url.
AwaitsDirectUrl(msgs, at) ==
    LET image == msgs[at[1]].images[at[2]]
    IN  /\ image.needsDirectUrl
        /\ IdMatch(image.url) # <<>> \/ FileIdMatch(image.url) # <<>>

\* <<i, j>> comes after <<i0, j0>> in the two nested loops
LoopsAfter(at, i0, j0) == at[1] > i0 \/ (at[1] = i0 /\ at[2] > j0)

\* The next image the loops stop at after <<i0, j0>>: <<at>> or <<>>.
NextAwait(msgs, i0, j0) ==
    LET stops == {at \in UNION {{<<i, j>> : j \in DOMAIN msgs[i].images} : i \in DOMAIN msgs} :
                    /\ LoopsAfter(at, i0, j0)
                    /\ AwaitsDirectUrl(msgs, at)}
    IN  IF stops = {} THEN <<>>
        ELSE <<CHOOSE at \in stops :
                    \A other \in stops : other = at \/ LoopsAfter(other, at[1], at[2])>>

\* processImages from its start to its first await: updatedMessages is a copy
\* of the message list as it is now.  A run that finds nothing to fetch ends
\* with needsUpdate false and writes nothing.
ProcessImages(ps, msgs) ==
    IF variant # "part006" \/ NextAwait(msgs, 1, 0) = <<>> THEN ps
    ELSE LET at == NextAwait(msgs, 1, 0)[1]
         IN  Append(ps, [updatedMessages |-> msgs, at |-> at,
                         image |-> msgs[at[1]].images[at[2]],
                         needsUpdate |-> FALSE])

\* updatedMessages[i].images![j] = {...}: the images array belongs to the
\* message object, which every copy of the list shares, so the assignment
\* shows in each list that holds the message `id`.
AssignImage(msgs, id, j, newImage) ==
    [k \in DOMAIN msgs |->
        IF msgs[k].id = id
        THEN [msgs[k] EXCEPT !.images = [@ EXCEPT ![j] = newImage]]
        ELSE msgs[k]]

\* { ...image, url: directUrl, needsDirectUrl: false }
DirectImage(image, directUrl) ==
    [image EXCEPT !.url = directUrl, !.needsDirectUrl = FALSE]

\* what tryGetDirectImageUrls resolves to for the file: <<>> (null) when the
\* route did not answer ok, else the url of the answer.
DirectUrls(fileId) ==
    {<<>>, <<<<"h", "t", "t", "p", "s", ":", "/", "/", "l", "h", "3", ".", "g", "o", "o", "g", "l", "e", "u", "s", "e", "r", "c", "o", "n", "t", "e", "n", "t", ".", "c", "o", "m", "/", "d", "/">> \o fileId>>, <<ExportView(fileId)>>}

\* the file id processImages asks for
FetchedFileId(image) ==
    IF IdMatch(image.url) # <<>> THEN IdMatch(image.url)[1] ELSE FileIdMatch(image.url)[1]

RemoveAt(ps, p) == [k \in 1..(Len(ps) - 1) |-> IF k < p THEN ps[k] ELSE ps[k + 1]]

\* ----------------------------------------------------------------- actions

Welcome == [id |-> 1, role |-> "assistant", content |-> <<"Hello! I am ChroBot.">>,
            images |-> <<>>, suggestTicket |-> FALSE, ticketCreated |-> FALSE,
            ticketId |-> <<>>]

\* The state of ChatLayout after its first render, with the turn at `at`.
ChatInitAt(at) ==
    /\ variant \in Variants
    /\ messages = <<Welcome>>
    /\ input = ""
    /\ isLoading = FALSE
    /\ toasts = <<>>
    /\ nextId = 2
    /\ pc = at
    /\ userMessageId = 0
    /\ currentInput = ""
    /\ result = NoResult
    /\ knowledgeBase = <<>>
    /\ retries = 0
    /\ lastError = <<>>
    /\ turns = 0
    /\ msgsBefore = <<>>
    /\ modResult = <<>>
    /\ errors = <<>>
    /\ promptCalls = 0
    /\ waits = <<>>
    /\ trace = <<>>
    /\ kbCalls = 0
    /\ genCalls = 0

ChatInit == ChatInitAt("idle")

turnVars == <<userMessageId, currentInput, result, knowledgeBase, retries, lastError,
              turns, msgsBefore, modResult, errors, promptCalls, waits, trace,
              kbCalls, genCalls>>

\* onChange of the textarea (disabled while loading)
TypeInput(s) ==
    /\ ~isLoading
    /\ input' = s
    /\ UNCHANGED <<sideVars, resolveVars, modalVars, genVars, imgVars, ticketVars, variant, messages, isLoading, toasts, nextId, pc, turnVars>>

\* handleSubmit up to its await: the optimistic append and the call of
\* handleSendMessage, which enters moderateChatContentFlow.
HandleSubmit ==
    /\ turns < MaxTurns
    /\ IF IsBlank(input) \/ isLoading
       THEN UNCHANGED vars
       ELSE /\ userMessageId' = nextId
            /\ nextId' = nextId + 1
            /\ messages' = Append(messages, UserMessage(nextId, input))
            /\ currentInput' = input
            /\ input' = ""
            /\ isLoading' = TRUE
            /\ turns' = turns + 1
            /\ msgsBefore' = messages
            /\ knowledgeBase' = <<>>
            /\ retries' = 0
            /\ lastError' = <<>>
            /\ modResult' = <<>>
            /\ errors' = <<>>
            /\ promptCalls' = 0
            /\ waits' = <<>>
            /\ trace' = <<>>
            /\ kbCalls' = 0
            /\ genCalls' = 0
            /\ GenReset("idle")
            /\ IF LoopContinues(0)
               THEN pc' = "mod_call" /\ result' = NoResult
               ELSE pc' = "client" /\ result' = UnexpectedResult("exhausted")
            /\ passes' = ProcessImages(passes, messages')
            /\ Len(passes') <= MaxPasses
            /\ UNCHANGED <<sideVars, modalVars, imgVars, ticketVars, variant, toasts>>

\* moderateChatContentPrompt resolves with an output
ModeratePromptOk(mr) ==
    /\ pc = "mod_call"
    /\ promptCalls' = promptCalls + 1
    /\ trace' = Append(trace, "call")
    /\ modResult' = <<mr>>
    /\ IF ModerationGate(mr)
       THEN pc' = "client" /\ result' = FlaggedResult(mr)
       ELSE pc' = "kb" /\ result' = result
    /\ UNCHANGED <<sideVars, resolveVars, modalVars, genVars, imgVars, ticketVars, variant, messages, input, isLoading, toasts, nextId,
                   userMessageId, currentInput, knowledgeBase, retries, lastError,
                   turns, msgsBefore, errors, waits, kbCalls, genCalls>>

\* moderateChatContentPrompt rejects: the flow's catch block
ModeratePromptFails(e) ==
    /\ pc = "mod_call"
    /\ promptCalls' = promptCalls + 1
    /\ trace' = Append(trace, "call")
    /\ lastError' = <<e>>
    /\ errors' = Append(errors, e)
    /\ IF IsOverloadError(e)
       THEN pc' = "mod_wait" /\ result' = result
       ELSE pc' = "client" /\ result' = UnexpectedResult("prompt")
    /\ UNCHANGED <<sideVars, resolveVars, modalVars, genVars, imgVars, ticketVars, variant, messages, input, isLoading, toasts, nextId,
                   userMessageId, currentInput, knowledgeBase, retries, turns,
                   msgsBefore, modResult, waits, kbCalls, genCalls>>

\* the backoff timer fires: retries++, then the loop test, then the throw
ModerateBackoff ==
    /\ pc = "mod_wait"
    /\ waits' = Append(waits, BackoffDelay(retries))
    /\ trace' = Append(trace, "wait")
    /\ retries' = retries + 1
    /\ IF LoopContinues(retries + 1)
       THEN pc' = "mod_call" /\ result' = result
       ELSE pc' = "client" /\ result' = UnexpectedResult("exhausted")
    /\ UNCHANGED <<sideVars, resolveVars, modalVars, genVars, imgVars, ticketVars, variant, messages, input, isLoading, toasts, nextId,
                   userMessageId, currentInput, knowledgeBase, lastError, turns,
                   msgsBefore, modResult, errors, promptCalls, kbCalls, genCalls>>

\* getKnowledgeBase resolves; on documents generateResponseFromDrive is called
KnowledgeBase(env) ==
    /\ pc = "kb"
    /\ kbCalls' = kbCalls + 1
    /\ LET kb == GetKnowledgeBase(env)
       IN  /\ knowledgeBase' = <<kb>>
           /\ IF IsKnowledgeBaseError(kb)
              THEN /\ pc' = "client"
                   /\ result' = KnowledgeBaseErrorResult
                   /\ UNCHANGED <<resolveVars, modalVars, genVars, genCalls>>
              ELSE IF IsNoDocuments(kb)
              THEN /\ pc' = "client"
                   /\ result' = NoDocumentsResult(kb)
                   /\ UNCHANGED <<resolveVars, modalVars, genVars, genCalls>>
              ELSE /\ pc' = "gen"
                   /\ result' = result
                   /\ genCalls' = genCalls + 1
                   /\ GenReset("start")
    /\ UNCHANGED <<sideVars, resolveVars, modalVars, imgVars, ticketVars, variant, messages, input, isLoading, toasts, nextId,
                   userMessageId, currentInput, retries, lastError, turns,
                   msgsBefore, modResult, errors, promptCalls, waits, trace>>

\* generateResponseFromDrive has returned: the images are mapped to proxy
\* urls and handleSendMessage returns responseData
Respond ==
    /\ pc = "gen"
    /\ genPc = "done"
    /\ pc' = "client"
    /\ result' = ResponseResult(output)
    /\ UNCHANGED <<sideVars, resolveVars, modalVars, genVars, imgVars, ticketVars, variant, messages, input, isLoading, toasts, nextId,
                   userMessageId, currentInput, knowledgeBase, retries, lastError,
                   turns, msgsBefore, modResult, errors, promptCalls, waits, trace,
                   kbCalls, genCalls>>

\* generateResponseFromDrive rejects (the flow runner fails outside the
\* flow's own try): handleSendMessage's catch block
GenerationThrows ==
    /\ pc = "gen"
    /\ genPc = "flow"
    /\ pc' = "client"
    /\ result' = UnexpectedResult("generation")
    /\ genPc' = "thrown"
    /\ UNCHANGED <<sideVars, resolveVars, modalVars, knowledgeImages, answer, flowFailed, flowResponse, output, imgVars, ticketVars, variant, messages, input, isLoading, toasts, nextId,
                   userMessageId, currentInput, knowledgeBase, retries, lastError,
                   turns, msgsBefore, modResult, errors, promptCalls, waits, trace,
                   kbCalls, genCalls>>

\* the server action call itself fails (transport): the await throws
ServerCallRejects ==
    /\ InFlight
    /\ pc' = "client"
    /\ result' = ThrownResult
    /\ UNCHANGED <<sideVars, resolveVars, modalVars, genVars, imgVars, ticketVars, variant, messages, input, isLoading, toasts, nextId,
                   userMessageId, currentInput, knowledgeBase, retries, lastError,
                   turns, msgsBefore, modResult, errors, promptCalls, waits, trace,
                   kbCalls, genCalls>>

\* what handleSubmit does to the transcript once the await settles
OnResult(msgs, r, uid, botId) ==
    CASE r.kind = "thrown" ->
            IF variant = "part006" THEN RemoveMessage(msgs, uid) ELSE msgs
      [] Truthy(r.error) -> RemoveMessage(msgs, uid)
      [] TruthyText(r.response) -> Append(msgs, BotMessage(botId, r))
      [] OTHER -> msgs

\* mutant: failures are not reported
OnResultToastsSilent(ts, r) == ts

OnResultToasts(ts, r) ==
    CASE r.kind = "thrown" ->
            Append(ts, Toast("An error occurred",
                             [r EXCEPT !.error = "Failed to get a response."]))
      [] Truthy(r.error) -> Append(ts, Toast("Error", r))
      [] OTHER -> ts

\* mutant: no finally block
SetIsLoadingSkipped(loading) == loading

\* finally { setIsLoading(false) }
SetIsLoadingFinally(loading) == FALSE

\* handleSubmit called setMessages, so the effect on [messages] runs again
OnResultSetsMessages(r) ==
    \/ r.kind = "thrown" /\ variant = "part006"
    \/ r.kind # "thrown" /\ (Truthy(r.error) \/ TruthyText(r.response))

\* handleSubmit after its await: try / catch / finally
ClientResult ==
    /\ pc = "client"
    /\ messages' = OnResult(messages, result, userMessageId, nextId)
    /\ passes' = IF OnResultSetsMessages(result)
                  THEN ProcessImages(passes, messages') ELSE passes
    /\ Len(passes') <= MaxPasses
    /\ toasts' = OnResultToasts(toasts, result)
    /\ nextId' = IF result.kind = "response" /\ TruthyText(result.response)
                 THEN nextId + 1 ELSE nextId
    /\ isLoading' = SetIsLoadingFinally(isLoading)
    /\ pc' = "idle"
    /\ UNCHANGED <<sideVars, modalVars, genVars, imgVars, ticketVars, variant, input, turnVars>>

\* ---- the direct-url pass

ResolveInit == passes = <<>>

\* `https://drive.google.com/uc?export=view&id=${fileId}` with the cache buster
\* appended (the handleSendMessage that hands out Google Drive links)
DriveLinkImage(fileId, index, stepId) ==
    [url |-> ExportView(fileId) \o <<"&", "_", "c", "b", "=", "1">>, alt |-> index, stepId |-> stepId]

\* what that handleSendMessage resolves with
ResolveResults ==
    {KnowledgeBaseErrorResult,
     [NoResult EXCEPT !.kind = "response", !.response = <<<<"D", "o", "n", "e", ".">>>>],
     [NoResult EXCEPT !.kind = "response", !.response = <<<<"1", ".", " ", "O", "p", "e", "n">>>>,
                      !.images = <<DriveLinkImage(<<"a", "1">>, 1, <<"s", "t", "e", "p", "-", "1">>)>>]}

\* the awaited handleSendMessage resolves
HandleSendMessageResolves(r) ==
    /\ pc = "mod_call"
    /\ pc' = "client"
    /\ result' = r
    /\ UNCHANGED <<sideVars, resolveVars, modalVars, genVars, imgVars, ticketVars, variant, messages, input,
                   isLoading, toasts, nextId, userMessageId, currentInput,
                   knowledgeBase, retries, lastError, turns, msgsBefore, modResult,
                   errors, promptCalls, waits, trace, kbCalls, genCalls>>

\* processImages after an await: the fetch of pass p settled with directUrl;
\* the loops run on to the next await or to the end, where the list is
\* written back if any fetch gave a url.
DirectUrlSettles(p, directUrl) ==
    /\ p \in DOMAIN passes
    /\ directUrl \in DirectUrls(FetchedFileId(passes[p].image))
    /\ LET pass == passes[p]
           id == pass.updatedMessages[pass.at[1]].id
           Assigned(msgs) ==
               IF directUrl = <<>> THEN msgs
               ELSE AssignImage(msgs, id, pass.at[2], DirectImage(pass.image, directUrl[1]))
           updated == Assigned(pass.updatedMessages)
           needsUpdate == pass.needsUpdate \/ directUrl # <<>>
           shared == [k \in DOMAIN passes |->
                        [passes[k] EXCEPT !.updatedMessages = Assigned(@)]]
           next == NextAwait(updated, pass.at[1], pass.at[2])
       IN  IF next # <<>>
           THEN /\ messages' = Assigned(messages)
                /\ passes' = [shared EXCEPT ![p] =
                                [updatedMessages |-> updated, at |-> next[1],
                                 image |-> updated[next[1][1]].images[next[1][2]],
                                 needsUpdate |-> needsUpdate]]
           ELSE IF needsUpdate
           THEN /\ messages' = updated
                /\ passes' = ProcessImages(RemoveAt(shared, p), updated)
           ELSE /\ messages' = messages
                /\ passes' = RemoveAt(shared, p)
    /\ UNCHANGED <<sideVars, modalVars, genVars, imgVars, ticketVars, variant, input, isLoading,
                   toasts, nextId, pc, turnVars>>

ResolveNext ==
    \/ \E s \in Inputs : TypeInput(s)
    \/ HandleSubmit
    \/ \E r \in ResolveResults : HandleSendMessageResolves(r)
    \/ ClientResult
    \/ \E p \in 1..MaxPasses : \E u \in DirectUrls(<<"a", "1">>) : DirectUrlSettles(p, u)

\* ---- the ticket modal

ModalInit ==
    /\ ticketModalOpen = FALSE
    /\ ticketQuestion = <<>>
    /\ ticketMessageId = 0
    /\ email = <<>>
    /\ additionalDetails = <<>>
    /\ isCreating = FALSE
    /\ ticket = <<>>
    /\ error = <<>>
    /\ creating = <<>>
    /\ ticketCalls = 0

Emails == {<<>>, <<"a@b.c">>}
Details == {<<>>, <<"It is urgent.">>}

\* The chat after one turn in which no document was found: the reply suggests
\* a ticket.
AfterNoDocumentsTurn ==
    /\ variant \in Variants
    /\ messages = <<Welcome, UserMessage(2, "hello"),
                    BotMessage(3, NoDocumentsResult(NoDocumentsSentence))>>
    /\ input = ""
    /\ isLoading = FALSE
    /\ toasts = <<>>
    /\ nextId = 4
    /\ pc = "idle"
    /\ userMessageId = 2
    /\ currentInput = "hello"
    /\ result = NoDocumentsResult(NoDocumentsSentence)
    /\ knowledgeBase = <<NoDocumentsSentence>>
    /\ retries = 0
    /\ lastError = <<>>
    /\ turns = 1
    /\ msgsBefore = <<Welcome>>
    /\ modResult = <<[isHarmful |-> FALSE, feedback |-> "be kind"]>>
    /\ errors = <<>>
    /\ promptCalls = 1
    /\ waits = <<>>
    /\ trace = <<"call">>
    /\ kbCalls = 1
    /\ genCalls = 0

\* ChatMessage shows the suggestion box with its two buttons
\* (ticketCreationInProgress is set by nothing but handleTicketCreated, to false)
SuggestionShown(message) == message.suggestTicket /\ ~message.ticketCreated

\* messages.find((msg) => msg.id === messageId)?.content || "Unknown question"
UserQuestion(msgs, messageId) ==
    LET found == SelectSeq(msgs, LAMBDA m : m.id = messageId)
    IN  IF found # <<>> /\ found[1].content # <<>> THEN found[1].content
        ELSE <<"Unknown question">>

\* onClick of "Create Support Ticket" in the message k, which dispatches the
\* createTicket event with the data-message-id of that message, and
\* handleCreateTicket, its listener
CreateTicketClick(k) ==
    /\ k \in DOMAIN messages
    /\ SuggestionShown(messages[k])
    /\ ticketQuestion' = UserQuestion(messages, messages[k].id)
    /\ ticketMessageId' = messages[k].id
    /\ ticketModalOpen' = TRUE
    /\ UNCHANGED <<sideVars, resolveVars, chatVars, genVars, imgVars, ticketVars, email,
                   additionalDetails, isCreating, ticket, error, creating, ticketCalls>>

\* msg.id === messageId ? { ...msg, suggestTicket: false } : msg
DismissedMessages(msgs, messageId) ==
    [k \in DOMAIN msgs |->
        IF msgs[k].id = messageId THEN [msgs[k] EXCEPT !.suggestTicket = FALSE]
        ELSE msgs[k]]

\* onClick of "No Thanks" in the message k, and handleDismissTicket
DismissTicketClick(k) ==
    /\ k \in DOMAIN messages
    /\ SuggestionShown(messages[k])
    /\ messages' = DismissedMessages(messages, messages[k].id)
    /\ passes' = ProcessImages(passes, messages')
    /\ UNCHANGED <<sideVars, modalVars, genVars, imgVars, ticketVars, variant, input, isLoading,
                   toasts, nextId, pc, turnVars>>

\* onChange of the email input and of the details textarea of the modal
TypeEmail(text) ==
    /\ ticketModalOpen
    /\ email' = text
    /\ UNCHANGED <<sideVars, resolveVars, chatVars, genVars, imgVars, ticketVars, ticketModalOpen,
                   ticketQuestion, ticketMessageId, additionalDetails, isCreating,
                   ticket, error, creating, ticketCalls>>

TypeDetails(text) ==
    /\ ticketModalOpen
    /\ additionalDetails' = text
    /\ UNCHANGED <<sideVars, resolveVars, chatVars, genVars, imgVars, ticketVars, ticketModalOpen,
                   ticketQuestion, ticketMessageId, email, isCreating, ticket, error,
                   creating, ticketCalls>>

\* onClose: Cancel, the X button, onOpenChange of the dialog
ModalClose ==
    /\ ticketModalOpen
    /\ ticketModalOpen' = FALSE
    /\ UNCHANGED <<sideVars, resolveVars, chatVars, genVars, imgVars, ticketVars, ticketQuestion,
                   ticketMessageId, email, additionalDetails, isCreating, ticket, error,
                   creating, ticketCalls>>

\* additionalDetails ? `${question}\n\nAdditional details: ${additionalDetails}` : question
FullQuestion(question, details) ==
    IF details = <<>> THEN question
    ELSE question \o <<"\n\nAdditional details: ">> \o details

\* JSON.stringify({ question, userEmail: userEmail || "" })
CreateTicketBody(question, userEmail) ==
    [kind |-> "object", question |-> JsonString(question),
     userEmail |-> JsonString(userEmail)]

\* what becomes of the request: the route handles it, it is lost on the way,
\* or something in front of the route refuses it
Deliveries == {"route", "lost", "refused"}

\* a response that is not ok and carries no error field
RefusedReply == [NoReply EXCEPT !.status = 502]

\* handleSubmit of the modal and createTicket up to its await fetch: the
\* submit button is disabled while isCreating.
ModalSubmit(delivery) ==
    /\ ticketModalOpen
    /\ ~isCreating
    /\ ticketPc = "idle"
    /\ ticketCalls < MaxRequests
    /\ ticketCalls' = ticketCalls + 1
    /\ isCreating' = TRUE
    /\ error' = <<>>
    /\ creating' = <<[question |-> FullQuestion(ticketQuestion, additionalDetails),
                      messageId |-> ticketMessageId, reached |-> delivery # "lost"]>>
    /\ CASE delivery = "route" ->
                PostReceives(CreateTicketBody(FullQuestion(ticketQuestion, additionalDetails),
                                              email))
         [] delivery = "refused" ->
                /\ ticketPc' = "answered"
                /\ ticketReply' = RefusedReply
                /\ ticketBody' = <<CreateTicketBody(FullQuestion(ticketQuestion, additionalDetails),
                                                    email)>>
         [] OTHER -> UNCHANGED <<ticketPc, ticketBody, ticketReply>>
    /\ UNCHANGED <<sideVars, resolveVars, chatVars, genVars, imgVars, ticketReplies, ticketModalOpen,
                   ticketQuestion, ticketMessageId, email, additionalDetails, ticket>>

\* handleTicketCreated
TicketCreatedMessages(msgs, messageId, ticketId) ==
    [k \in DOMAIN msgs |->
        IF msgs[k].id = messageId
        THEN [msgs[k] EXCEPT !.ticketCreated = TRUE, !.suggestTicket = FALSE,
                             !.ticketId = <<ticketId>>]
        ELSE msgs[k]]

\* { id: result.ticketId, question, createdAt, status: 'pending' }
NewTicket(ticketId, question) ==
    [id |-> ticketId, question |-> question, status |-> "pending"]

HookToast(title) == [title |-> title, description |-> NoValue, feedback |-> NoValue]

\* mutant: no finally block in createTicket
SetIsCreatingSkipped(c) == c

\* finally { setIsCreating(false) }
SetIsCreatingFinally(c) == FALSE

\* mutant: the failure closes the modal too
ModalAfterFailureClosed(open) == FALSE

\* the catch blocks of createTicket and of the modal's handleSubmit call
\* neither onClose nor setTicketModalOpen
ModalAfterFailure(open) == open

\* createTicket from its catch on: setError, the destructive toast, the
\* rethrow that the modal's handleSubmit swallows, finally
CreateTicketCatch(message) ==
    /\ error' = <<message>>
    /\ toasts' = Append(toasts, HookToast("Failed to Create Ticket"))
    /\ isCreating' = SetIsCreatingFinally(isCreating)
    /\ ticketModalOpen' = ModalAfterFailure(ticketModalOpen)
    /\ creating' = <<>>
    /\ UNCHANGED <<sideVars, resolveVars, genVars, imgVars, variant, messages, input, isLoading,
                   nextId, pc, turnVars, ticketQuestion, ticketMessageId, email,
                   additionalDetails, ticket, ticketCalls>>

\* new Error(result.error || "Failed to create ticket")
ErrorMessage(reply) ==
    IF reply.error # NoValue THEN reply.error ELSE "Failed to create ticket"

\* fetch rejects: the request did not get through
CreateTicketRejects ==
    /\ creating # <<>>
    /\ ~creating[1].reached
    /\ CreateTicketCatch("Failed to fetch")
    /\ UNCHANGED ticketVars

\* the response of the route reaches createTicket: response.json(), the
\* test of response.ok, and either the success path with onSuccess (the
\* modal's: onTicketCreated, onClose) or the throw into the catch
CreateTicketSettles ==
    /\ creating # <<>>
    /\ creating[1].reached
    /\ ticketPc = "answered"
    /\ ticketPc' = "idle"
    /\ ticketReplies' = Append(ticketReplies, ticketReply.status)
    /\ UNCHANGED <<ticketBody, ticketReply>>
    /\ IF ticketReply.status \in 200..299
       THEN /\ ticket' = <<NewTicket(ticketReply.ticketId[1], creating[1].question)>>
            /\ toasts' = Append(toasts, HookToast("Ticket Created"))
            /\ messages' = TicketCreatedMessages(messages, creating[1].messageId,
                                                 ticketReply.ticketId[1])
            /\ passes' = ProcessImages(passes, messages')
            /\ ticketModalOpen' = FALSE
            /\ isCreating' = SetIsCreatingFinally(isCreating)
            /\ creating' = <<>>
            /\ UNCHANGED <<sideVars, genVars, imgVars, variant, input, isLoading, nextId, pc,
                           turnVars, ticketQuestion, ticketMessageId, email,
                           additionalDetails, error, ticketCalls>>
       ELSE CreateTicketCatch(ErrorMessage(ticketReply))

ModalNext ==
    \/ \E k \in 1..3 : CreateTicketClick(k)
    \/ \E k \in 1..3 : DismissTicketClick(k)
    \/ \E text \in Emails : TypeEmail(text)
    \/ \E text \in Details : TypeDetails(text)
    \/ ModalClose
    \/ \E delivery \in Deliveries : ModalSubmit(delivery)
    \/ \E t \in TicketTimes : TicketCreated(t)
    \/ CreateTicketRejects
    \/ CreateTicketSettles

Next ==
    \/ \E s \in Inputs : TypeInput(s)
    \/ HandleSubmit
    \/ \E mr \in ModerationOutputs : ModeratePromptOk(mr)
    \/ \E e \in PromptErrors : ModeratePromptFails(e)
    \/ ModerateBackoff
    \/ \E env \in DriveEnvs : KnowledgeBase(env)
    \/ \E pool \in ChatPools : GetImages(pool)
    \/ \E a \in ChatAnswers : FlowResolves(a)
    \/ FlowFails
    \/ ExtractImages
    \/ GenerationThrows
    \/ Respond
    \/ ServerCallRejects
    \/ ClientResult

\* ------------------------------------------------------- specifications

Init == ChatInit /\ GenAt("idle") /\ ImgInit /\ TicketInit /\ ResolveInit /\ ModalInit /\ RouteInit /\ RenderInit

\* the chat turn
Spec == Init /\ [][Next]_vars

\* the chat turn, every server call returning or rejecting eventually (no
\* call stays in flight for ever) and handleSubmit resuming after its await
SpecLive == Init /\ [][Next]_vars /\ []<>(~InFlight) /\ WF_vars(ClientResult)

\* the state at a call of generateResponseFromDrive
InitGen == ChatInitAt("gen") /\ variant = "part006" /\ GenInit /\ ImgInit /\ TicketInit /\ ResolveInit /\ ModalInit /\ RouteInit /\ RenderInit

\* generateResponseFromDrive on its own, over all pools and answers
SpecGen == InitGen /\ [][GenNext]_vars

InitImg == Init /\ variant = "part006"

\* one image element of a rendered message; every failed load is reported
\* to the handler
SpecImg == InitImg /\ [][ImgNext]_vars /\ WF_vars(ImgFailure)

\* the create-ticket route, request after request
SpecTicket == InitImg /\ [][TicketNext]_vars

\* the chat of part_006 with the handleSendMessage that hands out Google
\* Drive links, and the direct-url passes they start
SpecResolve == InitImg /\ [][ResolveNext]_vars

\* the chat page with its ticket modal, the hook and the create-ticket route
InitModal ==
    /\ AfterNoDocumentsTurn
    /\ GenAt("idle") /\ ImgInit /\ TicketInit /\ ResolveInit /\ ModalInit /\ RouteInit /\ RenderInit

SpecModal == InitModal /\ [][ModalNext]_vars

\* the image-url route, request after request
SpecRoute == InitImg /\ [][RouteNext]_vars

InitRender ==
    /\ ChatInit /\ variant = "part006"
    /\ GenAt("idle") /\ ImgInit /\ TicketInit /\ ResolveInit /\ ModalInit /\ RouteInit
    /\ RenderGiven

\* StepImageRenderer applied to a message
SpecRender == InitRender /\ [][RenderNext]_vars

\* ------------------------------------------------------ claims: chat turn

Harmful == modResult # <<>> /\ modResult[1].isHarmful

\* The transient overload error, stated apart from the flow's own test.
TransientOverload(e) == e = [isError |-> TRUE, has503 |-> TRUE, hasOverloaded |-> TRUE]

\* The flow gave up: the terminal error after the retry loop.
Exhausted == result.detail = "exhausted"

RECURSIVE SumSeq(_)
SumSeq(q) == IF q = <<>> THEN 0 ELSE Head(q) + SumSeq(Tail(q))

IsPrefix(p, q) == Len(p) <= Len(q) /\ SubSeq(q, 1, Len(p)) = p

\* C2: once moderation has flagged the message harmful, neither
\* getKnowledgeBase nor generateResponseFromDrive is invoked in that call,
\* and the call's result is the error carrying the moderation feedback.
C2_HarmfulStopsBeforeGeneration ==
    Harmful =>
        /\ kbCalls = 0
        /\ genCalls = 0
        /\ pc \in {"client", "idle"}
        /\ result.kind = "error"
        /\ result.error = "Message flagged as harmful."
        /\ result.feedback = modResult[1].feedback

C2_Witness ==
    /\ Harmful
    /\ pc = "client"
    /\ result.feedback = "no threats"

\* C3: a turn flagged harmful ends with the transcript as it was before the
\* submit (the optimistic user message removed, no assistant message added)
\* and the feedback shown in a destructive toast.
C3_HarmfulTurnRestoresTranscript ==
    (Harmful /\ pc = "idle") =>
        /\ messages = msgsBefore
        /\ \A i \in DOMAIN messages : messages[i].id # userMessageId
        /\ toasts # <<>>
        /\ toasts[Len(toasts)].title = "Error"
        /\ toasts[Len(toasts)].feedback = modResult[1].feedback
        /\ ~isLoading

C3_Witness ==
    /\ Harmful
    /\ pc = "idle"
    /\ turns = 2
    /\ Len(messages) = 3

C5_StopsAfterThreeAttempts ==
    Exhausted =>
        /\ promptCalls = 3
        /\ Len(errors) = 3
        /\ \A i \in DOMAIN errors : TransientOverload(errors[i])
        /\ SumSeq(waits) >= 7000
        /\ result.kind = "error"
        /\ modResult = <<>>
        /\ kbCalls = 0 /\ genCalls = 0

C5_Witness ==
    /\ Exhausted
    /\ pc = "idle"
    /\ SumSeq(waits) = 7000
    /\ toasts # <<>>

\* C6: an error that is not the transient overload error ends the flow at
\* once: it is the last prompt call, no wait follows it, and the caller gets
\* the error.
C6_OtherErrorPropagatesImmediately ==
    \A i \in DOMAIN errors :
        ~TransientOverload(errors[i]) =>
            /\ i = Len(errors)
            /\ promptCalls = i
            /\ Len(waits) = i - 1
            /\ trace[Len(trace)] = "call"
            /\ pc \in {"client", "idle"}
            /\ result = UnexpectedResult("prompt")
            /\ modResult = <<>>

C6_Witness ==
    /\ Len(errors) = 2
    /\ TransientOverload(errors[1])
    /\ ~TransientOverload(errors[2])
    /\ errors[2].has503
    /\ pc = "idle"

\* The drive folder resolved to zero documents in this turn, and
\* handleSendMessage has returned.
ZeroDocumentsReturned ==
    /\ knowledgeBase = <<NoDocumentsSentence>>
    /\ pc \in {"client", "idle"}
    /\ result.kind # "thrown"

\* C16 as stated: when the drive folder resolves to zero documents,
\* handleSendMessage returns as its response exactly the no-relevant-documents
\* sentence of getKnowledgeBase, with suggestTicket = true, and the
\* answer-generation prompt is not invoked.
C16_ResponseIsExactlyTheSentence ==
    ZeroDocumentsReturned =>
        /\ result.response = <<NoDocumentsSentence>>
        /\ result.suggestTicket
        /\ genCalls = 0

\* C16 amended: the response is the no-relevant-documents sentence followed
\* by the offer to create a ticket (so it is longer than the sentence), with
\* suggestTicket = true, no error, no images, and generateResponseFromDrive
\* is not called.
C16_SentenceThenTicketOffer ==
    ZeroDocumentsReturned =>
        /\ result.kind = "response"
        /\ result.response = <<NoDocumentsSentence \o TicketOffer>>
        /\ IsPrefix(NoDocumentsSentence, result.response[1])
        /\ Len(result.response[1]) > Len(NoDocumentsSentence)
        /\ result.suggestTicket
        /\ result.error = NoValue
        /\ result.images = <<>>
        /\ genCalls = 0
        /\ genPc = "idle"

C16_Witness ==
    /\ ZeroDocumentsReturned
    /\ pc = "idle"
    /\ kbCalls = 1
    /\ messages[Len(messages)].role = "assistant"
    /\ messages[Len(messages)].suggestTicket
    /\ messages[Len(messages)].content = NoDocumentsSentence \o TicketOffer

\* The environments in which getKnowledgeBase fails: no folder id, no
\* credentials, a failed listing, or a failed content fetch of a document.
FailingDriveEnvs ==
    {env \in DriveEnvs :
        \/ ~env.folderId
        \/ ~env.credentials
        \/ ~env.listOk
        \/ env.files > 0 /\ ~env.contentOk}

KnowledgeBaseFailed ==
    /\ knowledgeBase # <<>>
    /\ \E env \in FailingDriveEnvs : knowledgeBase[1] = GetKnowledgeBase(env)

\* moderateChatContent threw to handleSendMessage: the turn is past the
\* moderation step without a moderation output.
ModerationThrew ==
    /\ errors # <<>>
    /\ modResult = <<>>
    /\ pc \in {"client", "idle"}

\* handleSendMessage has returned to handleSubmit (the await did not reject
\* in transport).
Settled == turns > 0 /\ pc \in {"client", "idle"} /\ result.kind # "thrown"

ErrorOnly(r) == r.kind = "error" /\ Truthy(r.error) /\ r.response = <<>> /\ r.images = <<>>

\* C18: handleSendMessage always returns a result: with missing drive
\* configuration, a failed listing or content fetch, or an exception from
\* moderation or from generation, the result has error set and response
\* unset; after a knowledge-base failure generateResponseFromDrive is not
\* called.
C18_FailuresReturnErrorResult ==
    /\ Settled => result.kind \in {"error", "response"}
    /\ Settled => (Truthy(result.error) <=> result.response = <<>>)
    /\ (Settled /\ KnowledgeBaseFailed) =>
            ErrorOnly(result) /\ genCalls = 0 /\ genPc = "idle"
    /\ (Settled /\ ModerationThrew) => ErrorOnly(result) /\ kbCalls = 0
    /\ (Settled /\ genPc = "thrown") => ErrorOnly(result)

C18_Witness ==
    /\ Settled
    /\ pc = "idle"
    /\ knowledgeBase =
         <<GetKnowledgeBase([folderId |-> TRUE, credentials |-> TRUE, listOk |-> TRUE,
                             files |-> 1, contentOk |-> FALSE])>>
    /\ toasts # <<>>
    /\ toasts[Len(toasts)].description = "I am having trouble accessing my knowledge base"

\* a second case of C18: the generation call rejected and the catch block
\* returned the error
GenerationThrewCaught == Settled /\ genPc = "thrown" /\ ErrorOnly(result)

\* The turn is over and it failed: handleSendMessage returned an error
\* outcome, or the call itself threw.
FailedTurnOver == turns > 0 /\ pc = "idle" /\ result.kind \in {"error", "thrown"}

\* the messages the turn added to the transcript
AddedMessages ==
    IF userMessageId = 0 THEN <<>>
    ELSE SelectSeq(messages, LAMBDA m : m.id >= userMessageId)

\* C19 as stated: after a failed chat turn the transcript contains a message
\* describing the failure.
C19_FailureMessageInTranscript ==
    FailedTurnOver =>
        \E i \in DOMAIN AddedMessages : AddedMessages[i].role = "assistant"

\* C19 amended: a failed chat turn is reported in a destructive toast that
\* carries the failure text; the transcript gets no message for it, and the
\* user's own message is taken out again (in chat-layout.tsx a thrown call
\* leaves the user's message in place); the input is enabled again.
C19_FailureShownAsToast ==
    FailedTurnOver =>
        /\ toasts # <<>>
        /\ LET t == toasts[Len(toasts)]
           IN  IF result.kind = "thrown"
               THEN t.title = "An error occurred"
                    /\ t.description = "Failed to get a response."
               ELSE t.title = "Error" /\ t.description = result.error
        /\ \A i \in DOMAIN messages : messages[i].role = "assistant" => messages[i].id < userMessageId
        /\ messages = IF result.kind = "thrown" /\ variant = "layout"
                      THEN Append(msgsBefore, UserMessage(userMessageId, currentInput))
                      ELSE msgsBefore
        /\ ~isLoading

C19_Witness ==
    /\ FailedTurnOver
    /\ result.kind = "thrown"
    /\ variant = "layout"
    /\ turns = 2
    /\ messages[Len(messages)].role = "user"
    /\ Len(toasts) = 2

\* getKnowledgeBase returned the text of the folder's documents
DocumentsFetched ==
    /\ knowledgeBase # <<>>
    /\ \E n \in 1..MaxFiles : knowledgeBase[1] = JoinDocuments(n)

ModerationPassed == modResult # <<>> /\ ~modResult[1].isHarmful

\* an assistant message was appended to the transcript in this turn
AssistantAppended ==
    \E i \in DOMAIN AddedMessages : AddedMessages[i].role = "assistant"

\* the first two orderings of C20: the knowledge-base fetch never starts
\* before moderation has returned not-harmful, and generation (the prompt)
\* never starts before the knowledge base was fetched with documents
FetchAfterModerationPromptAfterFetch ==
    /\ (pc = "kb" \/ kbCalls > 0 \/ knowledgeBase # <<>>) => ModerationPassed
    /\ (pc = "gen" \/ genCalls > 0 \/ genPc # "idle") =>
            ModerationPassed /\ kbCalls = 1 /\ DocumentsFetched
    /\ genPc = "done" => output.response = ProcessResponse(flowResponse, knowledgeImages).response

\* C20 as stated: moderation, knowledge-base fetch, prompt, image-tag
\* extraction, render run in this order, and the assistant message is
\* appended only after extraction finished.
C20_RenderOnlyAfterExtraction ==
    /\ FetchAfterModerationPromptAfterFetch
    /\ AssistantAppended => genPc = "done"

\* C20 amended: the same order, and an assistant message is appended only
\* after extraction finished or, when the folder has no documents, right
\* after the knowledge-base fetch, with no prompt and no extraction in the
\* turn.
C20_StepsInOrder ==
    /\ FetchAfterModerationPromptAfterFetch
    /\ AssistantAppended =>
          /\ pc = "idle"
          /\ ModerationPassed
          /\ \/ /\ genPc = "done"
                /\ DocumentsFetched
                /\ messages[Len(messages)].content = output.response
             \/ /\ genPc = "idle"
                /\ genCalls = 0
                /\ knowledgeBase = <<NoDocumentsSentence>>
                /\ messages[Len(messages)].content = NoDocumentsSentence \o TicketOffer

C20_Witness ==
    /\ AssistantAppended
    /\ genPc = "done"
    /\ turns = 1
    /\ messages[Len(messages)].images # <<>>
    /\ promptCalls = 2

\* C21: at most one chat turn is in flight at any time: a call of
\* handleSendMessage starts only from a submit made while nothing is loading
\* and the input is not blank, and while a call is in flight isLoading holds,
\* so no second call starts before the first has completed.
C21_OneTurnInFlight ==
    /\ [](InFlight => isLoading)
    /\ [][turns' # turns =>
            /\ ~isLoading
            /\ pc = "idle"
            /\ input \notin {"", " "}
            /\ turns' = turns + 1
            /\ isLoading'
            /\ currentInput' = input]_vars

C21_Witness ==
    /\ turns = 2
    /\ pc = "gen"
    /\ isLoading
    /\ Len(messages) > 3

\* C27: after every submitted chat turn, whether it ends with a response,
\* with an error outcome or with a thrown call, isLoading is false again
\* (the server call being assumed to return or throw eventually).
C27_LoadingEnds ==
    /\ isLoading ~> (~isLoading /\ pc = "idle")
    /\ [](pc = "idle" => ~isLoading)

C27_Witness ==
    /\ turns = 2
    /\ pc = "idle"
    /\ ~isLoading
    /\ result.kind = "thrown"
    /\ Len(toasts) = 2

\* C28: every chat turn whose server result carries no error appends exactly
\* one assistant message, directly after the user message submitted, also
\* when the response text is the empty string; and no turn ends with its
\* user message left without a reply and not removed.
C28_OneReplyPerAnsweredTurn ==
    /\ (turns > 0 /\ pc = "idle" /\ result.kind = "response") =>
            /\ Len(messages) = Len(msgsBefore) + 2
            /\ messages[Len(messages) - 1] = UserMessage(userMessageId, currentInput)
            /\ messages[Len(messages)].role = "assistant"
    /\ (turns > 0 /\ pc = "idle") =>
            messages[Len(messages)] # UserMessage(userMessageId, currentInput)

\* the turn ended with an empty response: the user message stays, unanswered
EmptyResponseTurn ==
    /\ turns > 0
    /\ pc = "idle"
    /\ result.kind = "response"
    /\ result.response = <<<<>>>>
    /\ messages = Append(msgsBefore, UserMessage(userMessageId, currentInput))
    /\ toasts = <<>>

\* --------------------------------- claims: generateResponseFromDrive

\* generateResponseFromDrive has returned what it made of a model answer.
Returned == genPc = "done" /\ ~flowFailed

PoolIds == {knowledgeImages[i].id : i \in DOMAIN knowledgeImages}

StepTagsOf(a) == {a[i] : i \in {j \in DOMAIN a : a[j].kind = "step"}}

TagsOf(a) == {a[i] : i \in {j \in DOMAIN a : a[j].kind \in {"step", "general"}}}

Entries == {output.imageUrls[i] : i \in DOMAIN output.imageUrls}

StepIdText(n) == <<"s", "t", "e", "p", "-">> \o n

\* C1: whatever the answer and the pool, the text generateResponseFromDrive
\* returns holds no [image: ...] tag and no [image-stepN: ...] tag.
C1_NoTagInReturnedText ==
    genPc = "done" =>
        /\ GeneralMatches(output.response) = <<>>
        /\ StepMatches(output.response) = <<>>

\* C7: for every step tag [image-stepN: name (ID: id)] of the answer whose id
\* is the id of a candidate image, the returned text does not contain
\* "image-stepN" and the image list has exactly one entry with stepId step-N
\* and that id.
C7_StepTagResolvesById ==
    Returned =>
        \A t \in StepTagsOf(answer) :
            t.id \in PoolIds =>
                /\ ~Includes(output.response, <<"i", "m", "a", "g", "e", "-", "s", "t", "e", "p">> \o t.step)
                /\ Cardinality({i \in DOMAIN output.imageUrls :
                        /\ output.imageUrls[i].stepId = StepIdText(t.step)
                        /\ output.imageUrls[i].id = t.id}) = 1

\* C8: a step tag whose id is no candidate's id gives no entry: no entry
\* carries its step unless a step tag with that step names the entry's id,
\* and when every tag of the answer is unmatched the image list is empty.
C8_UnmatchedIdGivesNoEntry ==
    Returned =>
        /\ \A t \in StepTagsOf(answer) : \A e \in Entries :
               (t.id \notin PoolIds /\ e.stepId = StepIdText(t.step)) =>
                   \E u \in StepTagsOf(answer) : u.step = t.step /\ u.id = e.id
        /\ (TagsOf(answer) # {} /\ \A t \in TagsOf(answer) : t.id \notin PoolIds)
               => output.imageUrls = <<>>

\* A step tag standing on its own in the answer, as StepTag writes it.
IsPlainStepTag(p) == p.kind = "step" /\ p = StepTag(p.step, p.name, p.id)

\* The answer with every repeated occurrence of a step tag taken out.
RECURSIVE DropRepeats(_, _)
DropRepeats(a, seen) ==
    IF a = <<>> THEN <<>>
    ELSE IF IsPlainStepTag(a[1]) /\ a[1] \in seen
         THEN DropRepeats(Tail(a), seen)
         ELSE <<a[1]>> \o DropRepeats(Tail(a), seen \cup {a[1]})

HasRepeatedStepTag == DropRepeats(answer, {}) # answer

C10_StepIdOnlyFromStepTag ==
    Returned =>
        \A e \in Entries :
            e.stepId # NoStep => \E t \in StepTagsOf(answer) : t.id = e.id

\* C11: the image list generateResponseFromDrive returns never holds more
\* than 3 entries, whatever the answer and the pool.
C11_AtMostThreeImages ==
    genPc = "done" => Len(output.imageUrls) <= ImageLimit

\* More images were selected than the limit lets through.
C11_Witness ==
    /\ Returned
    /\ Len(SelectedImages(flowResponse, knowledgeImages)) > ImageLimit
    /\ Len(output.imageUrls) = ImageLimit

\* C12: when the generation prompt fails, generateResponseFromDrive returns
\* the apology text and an empty image list, whatever the pool.
C12_FlowFailureGivesApologyOnly ==
    (genPc = "done" /\ flowFailed) =>
        /\ output.response = Apology
        /\ output.imageUrls = <<>>

\* ------------------------------------------------ claims: the <img> handlers

Strategies == {"cachebust", "rewrite", "preview", "placeholder"}

\* C13: no fallback strategy is applied twice to one image element, so the
\* handler applies no more fallbacks than the chain has steps.
C13_EachFallbackAtMostOnce ==
    /\ \A i, j \in DOMAIN attempts : attempts[i] = attempts[j] => i = j
    /\ Len(attempts) <= Cardinality(Strategies)

\* C14: once the image is rendered, either some load succeeds or the element
\* comes to show the placeholder; it does not reload for ever.
C14_EventuallyPlaceholder ==
    (imgPc = "loading") ~> (imgPc = "loaded" \/ src = Placeholder)

\* C15: in ChatMessage, when the rewritten export-view url of a drive link
\* fails as well, the next fallback is the preview frame.
C15_PreviewAfterFailedRewrite ==
    (imgHandler = "chain" /\ Len(attempts) >= 2 /\ attempts[1] = "rewrite")
        => (attempts[2] = "preview" /\ element = "iframe")

\* ------------------------------------- claims: POST /api/create-ticket

\* the request answered carried a JSON object whose question is missing or
\* the empty string
MissingOrEmptyQuestion ==
    /\ ticketBody # <<>>
    /\ ticketBody[1].kind = "object"
    /\ \/ ticketBody[1].question = Undefined
       \/ ticketBody[1].question = JsonString(<<>>)

\* C17: POST /api/create-ticket with a missing or empty question answers 400
\* with an error body and no ticketId; a ticketId is returned only together
\* with success = true, for a question that is neither missing nor empty (a
\* body that cannot be read as an object is answered 500, without ticketId).
C17_NoTicketWithoutQuestion ==
    /\ (ticketPc = "answered" /\ MissingOrEmptyQuestion) =>
            /\ ticketReply.status = 400
            /\ ticketReply.error = "Missing required field: question"
            /\ ticketReply.ticketId = <<>>
            /\ ~ticketReply.success
    /\ ticketReply.ticketId # <<>> =>
            /\ ticketReply.success
            /\ ticketReply.status = 200
            /\ ticketReply.error = NoValue
            /\ ticketBody[1].kind = "object"
            /\ ~MissingOrEmptyQuestion
            /\ IsPrefix(<<"T", "I", "C", "K", "E", "T", "-">>, ticketReply.ticketId[1])
    /\ ticketReply.success => ticketReply.ticketId # <<>>
    /\ \A i \in DOMAIN ticketReplies : ticketReplies[i] \in {200, 400, 500}

C17_Witness ==
    /\ ticketPc = "answered"
    /\ MissingOrEmptyQuestion
    /\ ticketBody[1].question = JsonString(<<>>)
    /\ ticketReply.status = 400
    /\ ticketReplies = <<200>>

\* --------------------------------------------- claims: the direct-url pass

MessageIds(msgs) == {msgs[k].id : k \in DOMAIN msgs}

\* a step of processImages (or of typing), not a step of handleSubmit
NotATurnStep == UNCHANGED <<pc, turns>>

\* C26: the direct-url pass never removes a message from the transcript and
\* never brings a removed one back: every step that is not a step of
\* handleSubmit leaves the transcript with the same messages, so a message
\* added while the fetches were in flight is still there after the write-back.
C26_PassKeepsTranscript ==
    [][NotATurnStep => MessageIds(messages') = MessageIds(messages)]_vars

\* the write-back of a pass took the user message of the turn in flight away
UserMessageLost ==
    /\ pc = "mod_call"
    /\ userMessageId \notin MessageIds(messages)
\* ------------------------------------------------ claims: the ticket modal

\* the content of the user message that the assistant message `messageId` answers
QuestionBehind(msgs, messageId) ==
    LET k == CHOOSE k \in DOMAIN msgs : msgs[k].id = messageId
    IN  IF k > 1 /\ msgs[k - 1].role = "user" THEN msgs[k - 1].content ELSE <<>>

\* C24: after a click on "Create Support Ticket" the question in the ticket
\* modal, and the question sent to /api/create-ticket, is the content of the
\* user's message that led to the assistant message clicked on (followed by
\* the additional details, if any), not the assistant's reply and not
\* "Unknown question".
C24_TicketAsksTheUsersQuestion ==
    /\ ticketModalOpen => ticketQuestion = QuestionBehind(messages, ticketMessageId)
    /\ (creating # <<>> /\ creating[1].reached) =>
            /\ ticketBody[1].question.t = "string"
            /\ IsPrefix(QuestionBehind(messages, creating[1].messageId),
                        ticketBody[1].question.s)

\* the modal shows the assistant's own reply as the question of the ticket
ModalAsksTheReply ==
    /\ ticketModalOpen
    /\ ticketMessageId = 3
    /\ ticketQuestion = NoDocumentsSentence \o TicketOffer
    /\ QuestionBehind(messages, 3) = <<"hello">>

\* the createTicket call settles in this step
CallSettles == creating # <<>> /\ creating' = <<>>

\* the call fails: the request did not get through, or the response is not ok
CallFails == ~creating[1].reached \/ ticketReply.status \notin 200..299

\* the message k is marked as having its ticket in this step
Marked(k) ==
    /\ k \in DOMAIN messages /\ k \in DOMAIN messages'
    /\ messages'[k].ticketCreated /\ ~messages[k].ticketCreated

\* C30: a failed createTicket call leaves the transcript (suggestTicket,
\* ticketCreated), the hook's ticket and the open state of the modal as they
\* were and ends with isCreating false; a message is marked ticketCreated only
\* by a call that succeeded, which gives it the ticket id of the response,
\* clears its suggestTicket and closes the modal.
C30_FailureStaysRetryable ==
    /\ [][(CallSettles /\ CallFails) =>
            /\ messages' = messages
            /\ ticket' = ticket
            /\ ticketModalOpen' = ticketModalOpen
            /\ ~isCreating'
            /\ error' # <<>>]_vars
    /\ [][\A k \in 1..3 : Marked(k) =>
            /\ CallSettles /\ ~CallFails
            /\ messages[k].id = creating[1].messageId
            /\ messages'[k].ticketId = ticketReply.ticketId
            /\ ticketReply.ticketId # <<>>
            /\ ~messages'[k].suggestTicket
            /\ ~ticketModalOpen'
            /\ ~isCreating'
            /\ ticket' # <<>> /\ ticket'[1].id = ticketReply.ticketId[1]]_vars
    /\ [][(CallSettles /\ ~CallFails) =>
            \E k \in 1..3 : messages'[k].ticketCreated /\ ~ticketModalOpen']_vars

\* a call was answered with a response that is not ok, the modal stayed open
\* and the next call was lost
C30_Witness ==
    /\ ticketCalls = 2
    /\ creating = <<>>
    /\ error = <<"Failed to fetch">>
    /\ ticketReplies = <<502>>
    /\ Len(toasts) = 2
    /\ toasts[2].title = "Failed to Create Ticket"
    /\ SuggestionShown(messages[3])
    /\ ticket = <<>>
    /\ ~isCreating
    /\ ticketModalOpen
\* ------------------------------------------- claims: POST /api/image-url

\* the request being answered carried a fileId that is not missing or empty
FileIdSent ==
    /\ routeBody # <<>>
    /\ routeBody[1].kind = "object"
    /\ FileIdGiven(routeBody[1].fileId)

\* the scrape gave no url: the launch failed or the scrape ended without a src
ScrapeFailed == browser = "null" \/ scraped = <<>> \/ scraped[1] = <<>>

CanonicalUrl == ExportView(FileIdText(routeBody[1].fileId))

\* C22: POST /api/image-url with a non-empty fileId always answers 200 with a
\* url, which is the canonical export=view url of the file whenever the scrape
\* failed; an error status is answered only to a request without a fileId.
C22_AlwaysAnswersWithUrl ==
    routePc = "answered" =>
        /\ FileIdSent =>
                /\ routeReply.status = 200
                /\ routeReply.url # <<>>
                /\ ScrapeFailed => routeReply.url = <<CanonicalUrl>>
        /\ routeReply.status # 200 => ~FileIdSent

\* a request with a fileId was answered 500 after browser.close() rejected
ErrorAfterClose ==
    /\ routePc = "answered"
    /\ FileIdSent
    /\ closeCalls = 1
    /\ routeReply = RouteFailedReply

ListItemNumber(text) ==
    LET a == 1 + RunOf(text, 1, WhiteSpace)
        d == RunOf(text, a, Digits)
    IN  IF /\ d >= 1
           /\ a + d + 1 <= Len(text)
           /\ text[a + d] = "."
           /\ text[a + d + 1] \in WhiteSpace
        THEN <<DigitsValue(SubSeq(text, a, a + d - 1))>>
        ELSE <<>>

\* the text an image shown at p stands below: the nearest text above it
HostOf(p) ==
    LET above == {k \in 1..(p - 1) : rendered[k].kind = "text"}
    IN  rendered[CHOOSE k \in above : \A j \in above : j <= k]

ShownImages == {p \in DOMAIN rendered : rendered[p].kind = "image"}

\* C23: an image with stepId step-N is shown directly below the list item
\* numbered N of the text, whatever numbers the list uses, and below nothing
\* else: every image shown under a text stands under a list item whose number
\* is the one of its stepId, and every list item numbered N has each step-N
\* image below it.
C23_ImageBelowItsNumberedItem ==
    renderPc = "rendered" =>
        /\ \A p \in ShownImages :
                /\ ListItemNumber(HostOf(p).text) # <<>>
                /\ rendered[p].image[1].stepId
                        = StepIdOfNumber(ListItemNumber(HostOf(p).text)[1])
        /\ \A k \in DOMAIN rendered : \A i \in DOMAIN renderImages :
                (/\ rendered[k].kind = "text"
                 /\ ListItemNumber(rendered[k].text) # <<>>
                 /\ renderImages[i].stepId
                        = StepIdOfNumber(ListItemNumber(rendered[k].text)[1]))
                => \E p \in ShownImages :
                        /\ p > k
                        /\ HostOf(p) = rendered[k]
                        /\ rendered[p].image = <<renderImages[i]>>

\* a list that starts at 3: the image of step 1 is shown below the item 3
StepOneBelowItemThree ==
    /\ renderPc = "rendered"
    /\ renderer = "injected"
    /\ renderContent = <<"3", ".", " ", "C">>
    /\ rendered = <<TextItem(<<"3", ".", " ", "C">>), ImageItem(MessageImage(<<"/", "u", "1">>, StepIdOfNumber(1)))>>

\* the places where the image is shown, under a step or among the related images
PlacesOf(image) == {p \in DOMAIN rendered : rendered[p].image = <<image>>}

\* the numbers of the list items of the text
ItemNumbers ==
    {ListItemNumber(line)[1] : line \in
        {l \in {SplitLines(renderContent)[k] : k \in DOMAIN SplitLines(renderContent)} :
            ListItemNumber(l) # <<>>}}

\* C29: every image of the message is shown exactly once; an image whose
\* stepId names a numbered item of the text is shown under a step, an image
\* without stepId in the block of related images at the end.
C29_EveryImageShownOnce ==
    renderPc = "rendered" =>
        \A i \in DOMAIN renderImages :
            LET image == renderImages[i]
            IN  /\ Cardinality(PlacesOf(image)) = 1
                /\ (\E n \in ItemNumbers : image.stepId = StepIdOfNumber(n)) =>
                        \A p \in PlacesOf(image) : rendered[p].kind = "image"
                /\ image.stepId = NoStep =>
                        \A p \in PlacesOf(image) : rendered[p].kind = "related"

\* the image without a step is shown nowhere
ImageDropped ==
    /\ renderPc = "rendered"
    /\ renderer = "injected"
    /\ renderImages = <<MessageImage(<<"/", "u", "3">>, NoStep)>>
    /\ PlacesOf(renderImages[1]) = {}

\* the image of step 2 is shown twice
ImageShownTwice ==
    /\ renderPc = "rendered"
    /\ renderer = "sections"
    /\ renderContent = JoinLines(<<<<"1", ".", " ", "A">>, <<"2", ".", " ", "B">>>>)
    /\ renderImages = <<MessageImage(<<"/", "u", "2">>, StepIdOfNumber(2))>>
    /\ Cardinality(PlacesOf(renderImages[1])) = 2

====
